---- MODULE Spec2Model ----
(***************************************************************************)
(* BM2 supervision engine: one ProcessContainer (src/process-container.ts) *)
(* driven by operator commands (ProcessManager, daemon dispatcher) and by  *)
(* its background triggers (child exit, restart timer, file watcher,       *)
(* health prober, cron, memory monitor), and the ProcessManager registry.  *)
(*                                                                         *)
(* Every async method is cut at the awaits that really suspend (file I/O,  *)
(* tree-kill, child exit, timers).  An await of an already settled promise *)
(* only yields to the microtask queue, where no timer, socket or child     *)
(* event can run, so the code around it is one atomic step.                *)
(***************************************************************************)
EXTENDS Naturals, Integers, FiniteSets, Sequences, Bags, TLC

\* ---- bounds of the model ----
MaxChildren    == 2   \* OS children spawned for the entry in one behaviour
MaxTasks       == 2   \* async operations of the entry in flight at once
MaxCmds        == 2   \* operator commands sent to the entry in one behaviour
MaxFires       == 1   \* watcher / health / cron / memory restarts in one behaviour
MaxLeak        == 1   \* timers / watchers that lost their handle
MaxUnstable    == 1   \* cap of the unstable_restarts counter
MaxRestartsCfg == 1   \* largest configured max_restarts
MaxIds         == 3   \* ids the registry hands out before nextId is reset
MaxInst        == 2   \* largest resolved instance count of one start
MaxPmTasks     == 2   \* registry operations in flight at once
MaxPmCmds      == 3   \* operator commands sent to the registry in one behaviour
MaxWorkers     == 2   \* containers of the cluster that is reloaded
MaxCrashes     == 1   \* child exits of the cluster that no signal caused
MaxKillTimeout == 2   \* largest configured kill_timeout, in ms
MaxSignalDelay == 1   \* ms that `await treeKill(pid, "SIGTERM")` may take
MaxFailsCfg    == 2   \* largest configured healthCheckMaxFails
MaxProbers     == 2   \* startCheck calls of one service in one behaviour
MaxProbes      == 3   \* probes the interval timers start in one behaviour
MaxSavedRestarts == 1 \* largest restart_count of an entry when it is saved
MaxClusterInst == 3   \* largest instance count of the cluster start
MaxSpawns      == 3   \* spawns of one worker: the first one and its respawns
MaxField       == 6   \* largest value of the cron field (day of week)
MaxStep        == 3   \* largest step of a cron field expression
MaxApiCalls    == 5   \* calls made on one API client in one behaviour
MaxKills       == 2   \* kill() calls of the API client awaiting the daemon at once
MaxLines       == 4   \* lines passed to appendLog for the file
MaxRetain      == 3   \* largest retain of the rotation options
MaxFlushes     == 2   \* flushBuffer calls of the file in flight at once
LogMaxSize     == 1   \* maxSize of the rotation options, in lines
MaxDaemons     == 3   \* daemon processes spawned
MaxCliCalls    == 3   \* calls of startDaemon
MaxReqs        == 3   \* frames received on the socket

Bases == {"api", "web"}

Statuses == {"stopped", "launching", "online", "stopping", "errored", "waiting-restart"}
Origins == {"op", "reload", "timer", "watch", "health", "cron", "memory"}
AutoOrigins == {"timer", "watch", "health", "cron", "memory"}
ExitCodes == {0, 1}

VARIABLES
  \* ProcessContainer fields
  status, process, pid, restartCount, unstableRestarts, autorestart,
  isRestarting, restartTimer, monitorInterval, watcher,
  \* the operating system: live children, pids handed out, who spawned each
  alive, nextChild, spawnedBy,
  \* armed callbacks that no field of the container references any more
  orphanTimers, leakedMonitors, leakedWatchers,
  \* watcher debounce timer, HealthChecker.checks, CronManager.jobs
  debounce, health, cron,
  \* ProcessManager.processes has the entry
  registered,
  \* ProcessDescription (fixed at creation, autorestart apart)
  config,
  \* async operations suspended at an await
  tasks,
  \* operator command log (history)
  lastCmd, stopsInRow, capHit, cmds, fires,
  \* ProcessManager registry
  processes, nextId, dump, pmTasks, pmCmds,
  \* the last command when it was a scale of an existing service (history)
  lastScale,
  \* a cluster under GracefulReload.reload: its containers, the reload in
  \* flight, the pids it signalled, the snapshot taken when it began (history),
  \* exits that no signal caused (history)
  workers, rl, sig, before, crashes,
  \* the last child exit observed (history)
  exitLog,
  \* one non-forced stop() against a clock in ms
  ks,
  \* HealthChecker: the state objects startCheck created, the one in `checks`,
  \* probes in flight, Unhealthy callbacks made (history)
  hc,
  \* save / resurrect: the registry with full configs, the dump file, the
  \* entries as they were when saved (history)
  sv,
  \* resolveTarget: the registry it is called on, its argument and its result
  rt,
  \* a cluster start: its options, the containers pm.start built so far, each
  \* with the environment its child was last spawned with
  cl,
  \* the cron field matcher: its arguments and its result
  cm,
  \* the API client: _pollTimer, the interval timers that are armed, kill() calls in flight, the last call that returned (history)
  ap,
  \* the LogManager for one file: the file and its rotated segments, the write buffer, the flush timer, flushes and the rotation in flight, counts (history)
  lg,
  \* the daemon's artefacts on disk, the daemon processes and the CLI calls of startDaemon
  dm,
  \* the daemon's socket: requests received, requests in flight, responses sent
  ipc

ctVars == <<status, process, pid, restartCount, unstableRestarts, autorestart,
            isRestarting, restartTimer, monitorInterval, watcher,
            alive, nextChild, spawnedBy, orphanTimers, leakedMonitors,
            leakedWatchers, debounce, health, cron, registered, config,
            tasks, lastCmd, stopsInRow, capHit, cmds, fires>>
pmVars == <<processes, nextId, dump, pmTasks, pmCmds, lastScale>>
rlVars == <<workers, rl, sig, before, crashes>>
pureVars == <<sv, rt, cl>>
libVars == <<cm, ap, lg, dm, ipc>>
auxVars == <<ks, hc, pureVars, libVars>>
otherVars == <<pmVars, rlVars, exitLog, auxVars>>
vars == <<ctVars, pmVars, rlVars, exitLog, auxVars>>

\* The mutable state a synchronous stretch of container code works on.
Heap ==
  [status |-> status, process |-> process, pid |-> pid,
   restartCount |-> restartCount, unstableRestarts |-> unstableRestarts,
   autorestart |-> autorestart, isRestarting |-> isRestarting,
   restartTimer |-> restartTimer, monitorInterval |-> monitorInterval,
   watcher |-> watcher, alive |-> alive, nextChild |-> nextChild,
   spawnedBy |-> spawnedBy, orphanTimers |-> orphanTimers,
   leakedMonitors |-> leakedMonitors, leakedWatchers |-> leakedWatchers,
   debounce |-> debounce, health |-> health, cron |-> cron,
   registered |-> registered]

Commit(h) ==
  /\ status' = h.status /\ process' = h.process /\ pid' = h.pid
  /\ restartCount' = h.restartCount /\ unstableRestarts' = h.unstableRestarts
  /\ autorestart' = h.autorestart /\ isRestarting' = h.isRestarting
  /\ restartTimer' = h.restartTimer /\ monitorInterval' = h.monitorInterval
  /\ watcher' = h.watcher /\ alive' = h.alive /\ nextChild' = h.nextChild
  /\ spawnedBy' = h.spawnedBy /\ orphanTimers' = h.orphanTimers
  /\ leakedMonitors' = h.leakedMonitors /\ leakedWatchers' = h.leakedWatchers
  /\ debounce' = h.debounce /\ health' = h.health /\ cron' = h.cron
  /\ registered' = h.registered

\* Outcome of running code up to its next suspension.
Done(h) == [h |-> h, k |-> "done", pc |-> "none", c |-> 0]
Await(h, pc, c) == [h |-> h, k |-> "await", pc |-> pc, c |-> c]
Throw(h) == [h |-> h, k |-> "throw", pc |-> "none", c |-> 0]

\* ---- ProcessContainer ----

cleanupTimers(h) ==
  [h EXCEPT !.monitorInterval = FALSE, !.health = FALSE, !.cron = FALSE]

\* a different exit handler, which counts every exit before min_uptime as
\* unstable, restart or not
handleExitCounting(h, code, short) ==
  LET wasOnline == h.status = "online"
      h1 == cleanupTimers([h EXCEPT !.status = IF code = 0 THEN "stopped" ELSE "errored",
                                    !.pid = 0, !.process = 0,
                                    !.unstableRestarts = IF short THEN @ + 1 ELSE @])
  IN IF wasOnline /\ h1.autorestart /\ h1.restartCount < config.maxRestarts
     THEN [h1 EXCEPT !.status = "waiting-restart",
                     !.orphanTimers = IF h1.restartTimer THEN @ + 1 ELSE @,
                     !.restartTimer = TRUE]
     ELSE IF h1.restartCount >= config.maxRestarts
          THEN [h1 EXCEPT !.status = "errored"]
          ELSE h1

handleExit(h, code, short) ==
  LET wasOnline == h.status = "online"
      h1 == cleanupTimers([h EXCEPT !.status = IF code = 0 THEN "stopped" ELSE "errored",
                                    !.pid = 0, !.process = 0])
  IN IF wasOnline /\ h1.autorestart /\ h1.restartCount < config.maxRestarts
     THEN [h1 EXCEPT !.unstableRestarts = IF short THEN @ + 1 ELSE @,
                     !.status = "waiting-restart",
                     !.orphanTimers = IF h1.restartTimer THEN @ + 1 ELSE @,
                     !.restartTimer = TRUE]
     ELSE IF h1.restartCount >= config.maxRestarts
          THEN [h1 EXCEPT !.status = "errored"]
          ELSE h1

\* process.exited.then(code => { if (!this.isRestarting) this.handleExit(code) })
exitCallback(h, code, short) ==
  IF h.isRestarting THEN h ELSE handleExit(h, code, short)

\* start() up to its first await (the log-file checks)
startCall(h) ==
  IF h.status = "online" THEN Done(h)
  ELSE Await([h EXCEPT !.status = "launching"], "start_files", 0)

\* a different end of stop(), which forgets to clear the pid
stopFinalKeepsPid(h) == [h EXCEPT !.status = "stopped", !.process = 0]

stopFinal(h) == [h EXCEPT !.status = "stopped", !.pid = 0, !.process = 0]

\* stop(force) up to its first await (the SIGTERM tree-kill)
stopCall(h) ==
  IF h.status \notin {"online", "launching", "waiting-restart"} THEN Done(h)
  ELSE LET h1 == [cleanupTimers([h EXCEPT !.isRestarting = FALSE,
                                          !.status = "stopping",
                                          !.autorestart = FALSE,
                                          !.restartTimer = FALSE])
                   EXCEPT !.watcher = FALSE]
       IN IF h1.process # 0 /\ h1.pid # 0
          THEN Await(h1, "stop_term", 0)
          ELSE Done(stopFinal(h1))

\* what the caller of stop() does when stop() has returned
afterStop(t, h) ==
  CASE t.kind = "restart" ->
         startCall([h EXCEPT !.autorestart = t.was, !.isRestarting = FALSE])
    [] t.kind = "delete" -> Done([h EXCEPT !.registered = FALSE])
    [] OTHER -> Done(h)

\* what the caller of start() does when start() has returned
afterStart(t, h) ==
  IF t.kind = "reload" THEN Await(h, "reload_delay", t.c) ELSE Done(h)

thenStop(t, r) == IF r.k = "done" THEN afterStop(t, r.h) ELSE r

\* restart(): isRestarting, stop(), restore autorestart, start()
restartCall(t, h) ==
  thenStop(t, stopCall([h EXCEPT !.isRestarting = TRUE]))

\* an async call: was is restart()'s wasAutoRestart, c the child or pid it holds,
\* tag marks the stop() of the operator's latest command
NewTask(kind, origin, h) ==
  [kind |-> kind, origin |-> origin, pc |-> "none",
   was |-> (kind = "restart" /\ h.autorestart), c |-> 0,
   tag |-> (kind = "stop" /\ origin = "op")]

StopPcs == {"stop_term", "stop_wait", "stop_kill", "stop_reap"}

One(t) == SetToBag({t})
InFlight == BagCardinality(tasks)
Room == InFlight < MaxTasks

\* the bag of suspended operations after task t ran to outcome r
Put(bag, t, r) ==
  IF r.k = "await"
  THEN bag (+) One([t EXCEPT !.pc = r.pc, !.c = r.c,
                             !.was = (@ /\ r.pc \in StopPcs)])
  ELSE bag

Untagged(bag) ==
  LET S == BagToSet(bag)
      U(t) == [t EXCEPT !.tag = FALSE]
  IN [u \in {U(t) : t \in S} |->
        CopiesIn(u, bag) + (IF [u EXCEPT !.tag = TRUE] \in S
                            THEN CopiesIn([u EXCEPT !.tag = TRUE], bag) ELSE 0)]


Min(a, b) == IF a < b THEN a ELSE b

\* Bun.spawn in startFork / startCluster, then status = "online"
spawnChild(h, origin) ==
  LET n == h.nextChild + 1
  IN [h EXCEPT !.process = n, !.pid = n, !.alive = @ \cup {n}, !.nextChild = n,
               !.spawnedBy[n] = origin, !.status = "online"]

\* the tail of start(): monitor, watcher, health check, cron
armTimers(h) ==
  [h EXCEPT !.leakedMonitors = IF h.monitorInterval THEN Min(@ + 1, MaxLeak) ELSE @,
            !.monitorInterval = TRUE,
            !.leakedWatchers = IF config.watch /\ h.watcher THEN Min(@ + 1, MaxLeak) ELSE @,
            !.watcher = IF config.watch THEN TRUE ELSE @,
            !.health = IF config.health THEN TRUE ELSE @,
            !.cron = IF config.cron THEN TRUE ELSE @]

\* stop(): after `await treeKill(pid, "SIGTERM")`
stopTermed(t, h) ==
  IF t.kind # "delete"
  THEN IF h.process = 0 THEN Throw(h) ELSE Await(h, "stop_wait", h.process)
  ELSE IF h.pid # 0 THEN Await(h, "stop_kill", 0)
       ELSE IF h.process = 0 THEN Throw(h) ELSE Await(h, "stop_reap", h.process)

\* stop(): the kill-timeout won the race against process.exited
stopTimedOut(t, h) ==
  IF h.process # 0
  THEN IF h.pid # 0 THEN Await(h, "stop_kill", 0)
       ELSE Await(h, "stop_reap", h.process)
  ELSE thenStop(t, Done(stopFinal(h)))

\* stop(): after `await treeKill(pid, "SIGKILL")`, `await this.process.exited`
stopKilled(t, h) ==
  IF h.process = 0 THEN Throw(h) ELSE Await(h, "stop_reap", h.process)

\* ---- history ----
RetOf(r) == IF r.k = "await" THEN "pending" ELSE IF r.k = "done" THEN "ok" ELSE "err"

NoStop == [op |-> "other", at |-> "stopped", busy |-> FALSE, ret |-> "ok", quiet |-> FALSE]

\* the log entry of an operator command: for a stop, the status it found, whether
\* an operator restart was in flight, how it returned and whether it was then alone
Logged(op, r, bag) ==
  IF op # "stop" THEN NoStop
  ELSE [op |-> op, at |-> status,
        busy |-> \E u \in BagToSet(tasks) : u.kind = "restart" /\ u.origin = "op",
        ret |-> RetOf(r), quiet |-> (bag = EmptyBag)]

\* an operator command that ran to outcome r, leaving the suspended operations bag
IssueBag(op, r, bag) ==
     /\ Commit(r.h)
     /\ tasks' = bag
     /\ lastCmd' = Logged(op, r, bag)
     /\ stopsInRow' = IF op = "stop"
                      THEN (IF r.k = "done" THEN Min(stopsInRow + 1, 2) ELSE stopsInRow)
                      ELSE 0
     /\ capHit' = IF op \in {"restart", "reload", "reset"} THEN FALSE ELSE capHit
     /\ cmds < MaxCmds
     /\ cmds' = cmds + 1
     /\ UNCHANGED <<fires, config, otherVars>>

Issue(op, t, r) == IssueBag(op, r, Put(Untagged(tasks), t, r))

\* a timer callback that runs task t to outcome r
Callback(t, r) ==
  /\ Commit(r.h)
  /\ tasks' = Put(tasks, t, r)
  /\ UNCHANGED <<lastCmd, stopsInRow, capHit, cmds, config, otherVars>>

\* a background trigger (watcher, health check, cron, monitor)
Trigger(t, r) ==
  /\ fires < MaxFires
  /\ fires' = fires + 1
  /\ Callback(t, r)

\* suspended task t resumes as task u and runs to outcome r
Resume(t, u, r) ==
  LET bag == Put(tasks (-) One(t), u, r)
  IN /\ Commit(r.h)
     /\ tasks' = bag
     /\ lastCmd' = IF t.tag /\ r.k # "await"
                   THEN [lastCmd EXCEPT !.ret = RetOf(r), !.quiet = (bag = EmptyBag)]
                   ELSE lastCmd
     /\ stopsInRow' = IF t.tag /\ t.kind = "stop" /\ r.k = "done"
                      THEN Min(stopsInRow + 1, 2) ELSE stopsInRow
     /\ UNCHANGED <<capHit, cmds, fires, config, otherVars>>

\* ---- steps of suspended operations ----

\* start(): the log files are there; spawn, or fail before the spawn
StartSpawn(t) ==
  /\ t.pc = "start_files"
  /\ \/ /\ nextChild < MaxChildren
        /\ Resume(t, t, Await(spawnChild(Heap, t.origin), "start_pidfile", t.c))
     \/ Resume(t, t, Throw([Heap EXCEPT !.status = "errored"]))

\* start(): the PID file is written (or the write failed); arm the timers
StartArm(t) ==
  /\ t.pc = "start_pidfile"
  /\ \/ Resume(t, t, afterStart(t, armTimers(Heap)))
     \/ Resume(t, t, Throw([Heap EXCEPT !.status = "errored"]))

StopTermed(t) ==
  /\ t.pc = "stop_term"
  /\ Resume(t, t, stopTermed(t, Heap))

\* stop(): Promise.race of process.exited and the kill-timeout
StopRaced(t) ==
  /\ t.pc = "stop_wait"
  /\ IF t.c \notin alive
     THEN Resume(t, t, thenStop(t, Done(stopFinal(Heap))))
     ELSE Resume(t, t, stopTimedOut(t, Heap))

StopKilled(t) ==
  /\ t.pc = "stop_kill"
  /\ Resume(t, t, stopKilled(t, Heap))

\* stop(): `await this.process.exited` after SIGKILL
StopReaped(t) ==
  /\ t.pc = "stop_reap"
  /\ t.c \notin alive
  /\ Resume(t, t, thenStop(t, Done(stopFinal(Heap))))

\* GracefulReload.reload: readiness wait over, SIGTERM to the old pid
ReloadKill(t) ==
  /\ t.pc = "reload_delay"
  /\ Resume(t, t, Done(Heap))

\* startMonitoring callback: the sample is read and exceeds maxMemoryRestart
MonitorSampled(t) ==
  /\ t.pc = "sample"
  /\ LET u == NewTask("restart", "memory", Heap)
     IN Resume(t, u, restartCall(u, Heap))


\* ---- background triggers ----

\* the OS child c exits and its `exited` promise runs the exit callback
ChildExited(c, code, short) ==
  /\ c \in alive
  /\ LET h == exitCallback([Heap EXCEPT !.alive = @ \ {c}], code, short)
     IN /\ h.orphanTimers <= MaxLeak
        /\ h.unstableRestarts <= MaxUnstable
        /\ Commit([h EXCEPT !.spawnedBy[c] = "none"])
  /\ capHit' = (capHit \/ (~isRestarting /\ status = "online"
                           /\ restartCount >= config.maxRestarts))
  /\ UNCHANGED <<tasks, lastCmd, stopsInRow, cmds, fires, config, pmVars, rlVars, auxVars>>

ChildExit(c, code, short) == ChildExited(c, code, short) /\ UNCHANGED exitLog

\* uptime < minUptime or not: handleExit reads the uptime only when it restarts
Uptimes ==
  IF status = "online" /\ autorestart /\ restartCount < config.maxRestarts
  THEN BOOLEAN ELSE {FALSE}

\* the restart timer armed by handleExit: restartCount++, start()
timerBody(h) ==
  LET h1 == [h EXCEPT !.restartCount = @ + 1]
  IN fires' = fires /\ Callback(NewTask("start", "timer", h1), startCall(h1))

RestartTimerFire ==
  /\ restartTimer
  /\ Room
  /\ timerBody([Heap EXCEPT !.restartTimer = FALSE])

\* a restart timer whose handle handleExit overwrote
OrphanTimerFire ==
  /\ orphanTimers > 0
  /\ Room
  /\ timerBody([Heap EXCEPT !.orphanTimers = @ - 1])

\* fs.watch callback: (re)arm the 1 s debounce timer
FileChanged ==
  /\ watcher \/ leakedWatchers > 0
  /\ ~debounce
  /\ debounce' = TRUE
  /\ UNCHANGED <<status, process, pid, restartCount, unstableRestarts, autorestart,
                 isRestarting, restartTimer, monitorInterval, watcher,
                 alive, nextChild, spawnedBy, orphanTimers, leakedMonitors,
                 leakedWatchers, health, cron, registered, config,
                 tasks, lastCmd, stopsInRow, capHit, cmds, fires, otherVars>>

\* debounce timer: this.restart()
DebounceFire ==
  /\ debounce
  /\ Room
  /\ LET h == [Heap EXCEPT !.debounce = FALSE]
         t == NewTask("restart", "watch", h)
     IN Trigger(t, restartCall(t, h))

\* HealthChecker interval: consecutiveFails reached maxFails, onUnhealthy -> restart()
Unhealthy ==
  /\ health
  /\ Room
  /\ LET t == NewTask("restart", "health", Heap)
     IN Trigger(t, restartCall(t, Heap))

\* CronManager timer: callback() -> restart(), then scheduleNext() re-arms the job
CronFire ==
  /\ cron
  /\ Room
  /\ LET t == NewTask("restart", "cron", Heap)
         r == restartCall(t, Heap)
     IN Trigger(t, [r EXCEPT !.h.cron = TRUE])

\* startMonitoring interval: passes the pid/online check and starts reading the sample
MonitorTick ==
  /\ monitorInterval \/ leakedMonitors > 0
  /\ config.memory
  /\ pid # 0 /\ status = "online"
  /\ Room
  /\ Trigger(NewTask("monitor", "memory", Heap), Await(Heap, "sample", 0))

\* ---- operator commands (daemon handleMessage -> ProcessManager) ----

\* pm.stop(target): c.stop()
OpStop ==
  /\ registered /\ Room
  /\ LET t == NewTask("stop", "op", Heap)
     IN Issue("stop", t, thenStop(t, stopCall(Heap)))

\* pm.restart(target): c.restart()
OpRestart ==
  /\ registered /\ Room
  /\ LET t == NewTask("restart", "op", Heap)
     IN Issue("restart", t, restartCall(t, Heap))

\* pm.del(target): c.stop(true); processes.delete(c.id)
OpDelete ==
  /\ registered /\ Room
  /\ LET t == NewTask("delete", "op", Heap)
     IN Issue("delete", t, thenStop(t, stopCall(Heap)))

\* pm.reset(target)
OpReset ==
  /\ registered
  /\ Issue("reset", NewTask("reset", "op", Heap),
           Done([Heap EXCEPT !.restartCount = 0, !.unstableRestarts = 0]))

\* pm.reload(target): GracefulReload.reload([c]) up to its first suspension
OpReload ==
  /\ registered
  /\ LET old == pid
         t == [NewTask("reload", "reload", Heap) EXCEPT !.c = old]
         r0 == startCall(Heap)
         wait == Await(r0.h, "reload_delay", old)
     IN IF r0.k = "done"
        THEN Room /\ Issue("reload", t, wait)
        ELSE IF config.waitReady
             THEN /\ InFlight + 2 <= MaxTasks
                  /\ IssueBag("reload", wait,
                              Put(Put(Untagged(tasks), [t EXCEPT !.kind = "start", !.c = 0], r0),
                                  t, wait))
             ELSE Room /\ Issue("reload", t, [r0 EXCEPT !.c = old])

\* ---- the entry ----
Triggers == {"watch", "health", "cron", "memory"}

Config(a, m, g) ==
  [autorestart |-> a, maxRestarts |-> m, waitReady |-> (g = "waitReady"),
   watch |-> (g = "watch"), health |-> (g = "health"),
   cron |-> (g = "cron"), memory |-> (g = "memory")]

\* the configurations explored: every restart policy without optional features,
\* autorestart with wait_ready, and each background trigger with max_restarts = 0
Configs ==
  {Config(a, m, "none") : a \in BOOLEAN, m \in 0..MaxRestartsCfg}
    \cup {Config(TRUE, m, "waitReady") : m \in 0..MaxRestartsCfg}
    \cup {Config(TRUE, 0, g) : g \in Triggers}

NoScale == [on |-> FALSE, base |-> <<>>, was |-> 0, count |-> 0, alone |-> FALSE]
InitPM ==
  /\ processes = <<>> /\ nextId = 0 /\ dump = <<>> /\ pmTasks = EmptyBag /\ pmCmds = 0
  /\ lastScale = NoScale

\* pm.start(options): the container is built, registered, and start() is at its first await
InitCt ==
  /\ config \in Configs
  /\ status = "launching" /\ process = 0 /\ pid = 0
  /\ restartCount = 0 /\ unstableRestarts = 0
  /\ autorestart = config.autorestart /\ isRestarting = FALSE
  /\ restartTimer = FALSE /\ monitorInterval = FALSE /\ watcher = FALSE
  /\ alive = {} /\ nextChild = 0 /\ spawnedBy = [c \in 1..MaxChildren |-> "none"]
  /\ orphanTimers = 0 /\ leakedMonitors = 0 /\ leakedWatchers = 0
  /\ debounce = FALSE /\ health = FALSE /\ cron = FALSE
  /\ registered = TRUE
  /\ tasks = One([kind |-> "start", origin |-> "op", pc |-> "start_files",
                  was |-> FALSE, c |-> 0, tag |-> FALSE])
  /\ lastCmd = NoStop
  /\ stopsInRow = 0 /\ capHit = FALSE /\ cmds = 0 /\ fires = 0

\* no cluster reload and no exit observed
NoReload == [pc |-> "idle", i |-> 0, old |-> 0]
NoExit == [code |-> 0, short |-> FALSE, was |-> "none", unstable |-> 0, n |-> 0, allShort |-> TRUE]
\* no stop() under the clock
NoKill == [pc |-> "none", killTimeout |-> 0, now |-> 0, termAt |-> 0,
           deadline |-> 0, killAt |-> 0, exited |-> FALSE, sent |-> <<>>]
\* no health check configured
NoProbe == [g |-> 0, ok |-> FALSE, fails |-> 0, raised |-> FALSE, overlap |-> FALSE]
NoHealth == [cfg |-> 0, cur |-> 0, made |-> 0, st |-> <<>>, started |-> 0,
             raises |-> 0, n |-> 0, ev |-> NoProbe]
NoStore == [pc |-> "none", processes |-> <<>>, nextId |-> 0, file |-> <<>>, saved |-> <<>>]
NoResolve == [pc |-> "none", processes |-> <<>>, target |-> <<>>, result |-> <<>>]
NoCluster == [pc |-> "none", name |-> <<>>, instances |-> 0, port |-> <<>>, entries |-> <<>>]
InitPure == sv = NoStore /\ rt = NoResolve /\ cl = NoCluster
NoCron == [pc |-> "none", expr |-> <<>>, value |-> 0, result |-> FALSE]
NoClient == [pollTimer |-> 0, armed |-> {}, nextTimer |-> 0, kills |-> 0, calls |-> 0,
             n |-> 0, last |-> "none", cleared |-> FALSE]
NoFile == [exists |-> FALSE, data |-> <<>>]
NoLog == [retain |-> 0, files |-> <<>>, buf |-> <<>>, timer |-> FALSE, fl |-> {},
          rot |-> "none", lines |-> 0, rotated |-> 0]
NoDaemon == [pid |-> 0, sock |-> 0, procs |-> <<>>, clis |-> EmptyBag, calls |-> 0]
NoIpc == [reqs |-> <<>>, inflight |-> {}, sent |-> <<>>, exit |-> "none"]
InitLib == cm = NoCron /\ ap = NoClient /\ lg = NoLog /\ dm = NoDaemon /\ ipc = NoIpc
InitAux == ks = NoKill /\ hc = NoHealth /\ InitPure /\ InitLib
InitSide ==
  /\ workers = <<>> /\ rl = NoReload /\ sig = {} /\ before = <<>> /\ crashes = 0
  /\ exitLog = NoExit

Init == InitCt /\ InitPM /\ InitSide /\ InitAux

Next ==
  \/ \E t \in BagToSet(tasks) : StartSpawn(t)
  \/ \E t \in BagToSet(tasks) : StartArm(t)
  \/ \E t \in BagToSet(tasks) : StopTermed(t)
  \/ \E t \in BagToSet(tasks) : StopRaced(t)
  \/ \E t \in BagToSet(tasks) : StopKilled(t)
  \/ \E t \in BagToSet(tasks) : StopReaped(t)
  \/ \E t \in BagToSet(tasks) : ReloadKill(t)
  \/ \E t \in BagToSet(tasks) : MonitorSampled(t)
  \/ \E c \in alive, code \in ExitCodes, short \in Uptimes : ChildExit(c, code, short)
  \/ RestartTimerFire \/ OrphanTimerFire
  \/ FileChanged \/ DebounceFire \/ Unhealthy \/ CronFire \/ MonitorTick
  \/ OpStop \/ OpRestart \/ OpDelete \/ OpReset \/ OpReload

Spec == Init /\ [][Next]_vars


\* ---- the registry: ProcessManager ----
\* A registered container is kept as its id and name; the Map keeps insertion
\* order.  A name is a sequence of tokens: "api" is <<"api">>, "api-1" is
\* <<"api", 1>>.  Every await on container.start() suspends (it does file I/O);
\* container.stop(true) suspends when the container has a child and returns in
\* the same turn otherwise, so a loop over stop() may take several turns at once.
Entry(id, name) == [id |-> id, name |-> name]
Option(name, inst) == [name |-> name, inst |-> inst]
PmTask(kind, queue, i, list, pos) ==
  [kind |-> kind, queue |-> queue, i |-> i, list |-> list, pos |-> pos]
Ids == 0..(MaxIds - 1)
BaseNames == {<<b>> : b \in Bases}
Names == BaseNames \cup {<<b, k>> : b \in Bases, k \in 0..(MaxInst - 1)}
Options == {Option(n, k) : n \in BaseNames, k \in 1..MaxInst}
EcoApps == {<<Option(a, 1), Option(b, 1)>> : a, b \in BaseNames}

mapSet(procs, e) ==
  IF \E k \in 1..Len(procs) : procs[k].id = e.id
  THEN [k \in 1..Len(procs) |-> IF procs[k].id = e.id THEN e ELSE procs[k]]
  ELSE Append(procs, e)
mapDelete(procs, id) == SelectSeq(procs, LAMBDA p : p.id # id)
RECURSIVE mapDeleteAll(_, _)
mapDeleteAll(procs, list) ==
  IF list = <<>> THEN procs ELSE mapDeleteAll(mapDelete(procs, Head(list).id), Tail(list))

startsWith(name, target) == Len(target) < Len(name) /\ SubSeq(name, 1, Len(target)) = target
resolveAll == processes
resolveId(id) == SelectSeq(processes, LAMBDA p : p.id = id)
resolveName(target) ==
  SelectSeq(processes, LAMBDA p : p.name = target \/ startsWith(p.name, target))
\* first.name.replace(/-\d+$/, "")
baseNameOf(name) == IF Len(name) > 1 THEN SubSeq(name, 1, Len(name) - 1) ELSE name
\* resolvedInstances > 1 ? `${baseName}-${i}` : baseName
nameOf(opt, i) == IF opt.inst > 1 THEN Append(opt.name, i) ELSE opt.name

PmInFlight == BagCardinality(pmTasks)
PmRoom == PmInFlight < MaxPmTasks
PmCount == pmCmds < MaxPmCmds /\ pmCmds' = pmCmds + 1 /\ UNCHANGED <<ctVars, rlVars, exitLog, auxVars>>
PmIssue == PmCount /\ lastScale' = NoScale
PmStep == UNCHANGED <<pmCmds, lastScale, ctVars, rlVars, exitLog, auxVars>>

RECURSIVE SumCopies(_, _)
SumCopies(S, bag) ==
  IF S = {} THEN 0
  ELSE LET x == CHOOSE y \in S : TRUE IN CopiesIn(x, bag) + SumCopies(S \ {x}, bag)
\* Map iterators of deleteAll() in flight follow the entries that were removed
\* before their position
iterAfterDelete(bag, procs, ids) ==
  LET F(t) == [t EXCEPT !.pos = Cardinality({k \in 1..@ : procs[k].id \notin ids})]
      S == BagToSet(bag)
  IN [u \in {F(t) : t \in S} |-> SumCopies({t \in S : F(t) = u}, bag)]
iterAfterClear(bag) ==
  LET F(t) == [t EXCEPT !.pos = 0]
      S == BagToSet(bag)
  IN [u \in {F(t) : t \in S} |-> SumCopies({t \in S : F(t) = u}, bag)]

\* const id = this.nextId++; ...; this.processes.set(id, container); await container.start()
registerNext(opt, i) ==
  /\ nextId < MaxIds
  /\ processes' = mapSet(processes, Entry(nextId, nameOf(opt, i)))
  /\ nextId' = nextId + 1

\* for (...) await this.start(...): the first start of the chain registers its container
startsBegin(bag, queue) ==
  IF queue = <<>>
  THEN processes' = processes /\ nextId' = nextId /\ pmTasks' = bag
  ELSE registerNext(Head(queue), 0) /\ pmTasks' = bag (+) One(PmTask("start", queue, 0, <<>>, 0))

\* for (const c of list) { await c.stop(true); this.processes.delete(c.id) }:
\* the first k containers are stopped and deleted in this turn
stopAndDelete(bag, list, k) ==
  LET ids == {list[j].id : j \in 1..k} IN
  /\ processes' = mapDeleteAll(processes, SubSeq(list, 1, k))
  /\ pmTasks' = iterAfterDelete(bag, processes, ids)
                  (+) (IF k = Len(list) THEN EmptyBag
                       ELSE One(PmTask("del", <<>>, 0, SubSeq(list, k + 1, Len(list)), 0)))
  /\ UNCHANGED <<nextId, dump>>

\* daemon "start" -> pm.start(options)
OpPmStart(opt) == PmRoom /\ PmIssue /\ startsBegin(pmTasks, <<opt>>) /\ UNCHANGED dump

\* daemon "ecosystem" -> pm.startEcosystem(config)
OpEcosystem(apps) == PmRoom /\ PmIssue /\ startsBegin(pmTasks, apps) /\ UNCHANGED dump

\* container.start() returned to pm.start(), or threw
ContainerStarted(t) ==
  /\ t.kind = "start"
  /\ LET rest == pmTasks (-) One(t)
         opt == Head(t.queue)
     IN \/ pmTasks' = rest /\ UNCHANGED <<processes, nextId>>
        \/ IF t.i + 1 < opt.inst
           THEN registerNext(opt, t.i + 1) /\ pmTasks' = rest (+) One([t EXCEPT !.i = @ + 1])
           ELSE startsBegin(rest, Tail(t.queue))
  /\ UNCHANGED dump /\ PmStep

\* daemon "delete" -> pm.del(target)
OpDel(containers) ==
  /\ PmRoom /\ PmIssue
  /\ \E k \in 0..Len(containers) : stopAndDelete(pmTasks, containers, k)

\* c.stop(true) returned to pm.del() or to the scale-down loop
ContainerStopped(t) ==
  /\ t.kind = "del"
  /\ \E k \in 1..Len(t.list) : stopAndDelete(pmTasks (-) One(t), t.list, k)
  /\ PmStep

\* daemon "deleteAll" -> pm.deleteAll()
OpDeleteAll ==
  /\ PmRoom /\ PmIssue
  /\ IF processes = <<>>
     THEN nextId' = 0 /\ pmTasks' = iterAfterClear(pmTasks) /\ UNCHANGED processes
     ELSE pmTasks' = pmTasks (+) One(PmTask("deleteAll", <<>>, 0, <<>>, 1))
          /\ UNCHANGED <<processes, nextId>>
  /\ UNCHANGED dump

\* deleteAll(): c.stop(true) and Bun.sleep(100) are over for the container at pos
DeleteAllStep(t) ==
  /\ t.kind = "deleteAll"
  /\ LET rest == pmTasks (-) One(t) IN
     IF t.pos < Len(processes)
     THEN pmTasks' = rest (+) One([t EXCEPT !.pos = @ + 1]) /\ UNCHANGED <<processes, nextId>>
     ELSE processes' = <<>> /\ nextId' = 0 /\ pmTasks' = iterAfterClear(rest)
  /\ UNCHANGED dump /\ PmStep

\* daemon "scale" -> pm.scale(target, count)
OpScale(containers, count) ==
  /\ PmRoom /\ PmCount
  /\ lastScale' = IF containers = <<>> THEN NoScale
                  ELSE [on |-> TRUE, base |-> baseNameOf(containers[1].name),
                        was |-> Len(containers), count |-> count,
                        alone |-> pmTasks = EmptyBag]
  /\ IF containers = <<>> THEN UNCHANGED <<processes, nextId, dump, pmTasks>>
     ELSE LET baseName == baseNameOf(containers[1].name)
              currentCount == Len(containers)
          IN IF count > currentCount
             THEN /\ startsBegin(pmTasks,
                       [i \in 1..(count - currentCount) |->
                          Option(Append(baseName, currentCount + i - 1), 1)])
                  /\ UNCHANGED dump
             ELSE IF count < currentCount
             THEN \E k \in 0..(currentCount - count) :
                    stopAndDelete(pmTasks, SubSeq(containers, count + 1, currentCount), k)
             ELSE UNCHANGED <<processes, nextId, dump, pmTasks>>

\* daemon "save" -> pm.save()
OpSave ==
  /\ PmIssue
  /\ dump' = [k \in 1..Len(processes) |-> processes[k].name]
  /\ UNCHANGED <<processes, nextId, pmTasks>>

\* daemon "resurrect" -> pm.resurrect(): suspended on the dump file
OpResurrect ==
  /\ PmRoom /\ PmIssue
  /\ pmTasks' = pmTasks (+) One(PmTask("resurrect", <<>>, 0, <<>>, 0))
  /\ UNCHANGED <<processes, nextId, dump>>

\* resurrect(): the dump file was read
DumpRead(t) ==
  /\ t.kind = "resurrect"
  /\ startsBegin(pmTasks (-) One(t), [k \in 1..Len(dump) |-> Option(dump[k], 1)])
  /\ UNCHANGED dump /\ PmStep

\* resolveTarget(target) for target "all", an id, or a name
Resolved ==
  {resolveAll} \cup {resolveId(id) : id \in Ids} \cup {resolveName(n) : n \in Names}

InitRegistry == InitCt /\ config = Config(FALSE, 0, "none") /\ InitPM /\ InitSide /\ InitAux

NextPM ==
  \/ \E opt \in Options : OpPmStart(opt)
  \/ \E apps \in EcoApps : OpEcosystem(apps)
  \/ \E containers \in Resolved : OpDel(containers)
  \/ OpDeleteAll
  \/ \E containers \in Resolved, count \in 0..MaxInst : OpScale(containers, count)
  \/ OpSave
  \/ OpResurrect
  \/ \E t \in BagToSet(pmTasks) : ContainerStarted(t)
  \/ \E t \in BagToSet(pmTasks) : ContainerStopped(t)
  \/ \E t \in BagToSet(pmTasks) : DeleteAllStep(t)
  \/ \E t \in BagToSet(pmTasks) : DumpRead(t)

SpecPM == InitRegistry /\ [][NextPM]_vars

\* ---- a cluster under GracefulReload.reload ----
\* Each worker of the cluster is a ProcessContainer of its own (pm.start builds
\* one container per instance).  A worker is its container state h, the state
\* rs of the start() the reload called on it, and the state ts of the start()
\* its restart timer called.  The only command is one reload of the whole
\* cluster; children exit when the reload signalled them, or on their own.
Worker(h, rs, ts) == [h |-> h, rs |-> rs, ts |-> ts]
ReloadConfigs ==
  {Config(a, m, g) : a \in BOOLEAN, m \in 0..MaxRestartsCfg, g \in {"none", "waitReady"}}

\* a container that is online with its first child and n restarts behind it
onlineHeap(n) ==
  [status |-> "online", process |-> 1, pid |-> 1, restartCount |-> n,
   unstableRestarts |-> 0, autorestart |-> config.autorestart,
   isRestarting |-> FALSE, restartTimer |-> FALSE, monitorInterval |-> TRUE,
   watcher |-> FALSE, alive |-> {1}, nextChild |-> 1,
   spawnedBy |-> [c \in 1..MaxChildren |-> IF c = 1 THEN "op" ELSE "none"],
   orphanTimers |-> 0, leakedMonitors |-> 0, leakedWatchers |-> 0,
   debounce |-> FALSE, health |-> FALSE, cron |-> FALSE, registered |-> TRUE]
\* a container that the operator stopped
stoppedHeap ==
  [onlineHeap(0) EXCEPT !.status = "stopped", !.process = 0, !.pid = 0,
                        !.autorestart = FALSE, !.monitorInterval = FALSE,
                        !.alive = {}, !.spawnedBy = [c \in 1..MaxChildren |-> "none"]]
WorkerInits ==
  {Worker(onlineHeap(n), "none", "none") : n \in 0..config.maxRestarts}
    \cup {Worker(stoppedHeap, "none", "none")}

Snapshot(ws) ==
  [w \in 1..Len(ws) |-> [pid |-> ws[w].h.pid, restartCount |-> ws[w].h.restartCount,
                         status |-> ws[w].h.status]]

RlFrame == UNCHANGED <<ctVars, pmVars, exitLog, auxVars>>

\* reload(): the loop body for containers[i] up to its first await
rlEnter(ws, i) ==
  LET r0 == startCall(ws[i].h)
  IN /\ workers' = [ws EXCEPT ![i].h = r0.h,
                              ![i].rs = IF r0.k = "await" THEN "files" ELSE "ok"]
     /\ rl' = [pc |-> IF config.waitReady THEN "poll"
                      ELSE IF r0.k = "await" THEN "start" ELSE "delay",
               i |-> i, old |-> ws[i].h.pid]

\* a different reload, which signals the child of every container at once
rlKillAll ==
  /\ sig' = sig \cup {<<w, workers[w].h.pid>> :
                        w \in {v \in 1..Len(workers) : workers[v].h.pid # 0}}
  /\ rl' = [rl EXCEPT !.pc = IF rl.i < Len(workers) THEN "gap" ELSE "done"]
  /\ UNCHANGED <<workers, before, crashes>>

\* reload(): process.kill(oldPid, "SIGTERM"), then the delay before the next
\* container or the end of the loop
rlKill ==
  /\ sig' = IF rl.old # 0 /\ rl.old \in workers[rl.i].h.alive
            THEN sig \cup {<<rl.i, rl.old>>} ELSE sig
  /\ rl' = [rl EXCEPT !.pc = IF rl.i < Len(workers) THEN "gap" ELSE "done"]
  /\ UNCHANGED <<workers, before, crashes>>

\* daemon "reload" -> pm.reload(target) -> gracefulReload.reload(containers)
OpReloadAll ==
  /\ rl.pc = "idle"
  /\ before' = Snapshot(workers)
  /\ rlEnter(workers, 1)
  /\ UNCHANGED <<sig, crashes>> /\ RlFrame

\* the reload is suspended on `await startPromise` of worker w
Awaited(w) == rl.pc = "start" /\ rl.i = w

\* the start() that reload called on worker w: log files checked, spawn or fail.
\* Without wait_ready the reload awaits it and a failure rejects the reload;
\* with wait_ready nobody awaits it and the daemon's unhandledRejection
\* handler logs the failure.
RlStartSpawn(w) ==
  /\ workers[w].rs = "files"
  /\ \/ /\ workers[w].h.nextChild < MaxChildren
        /\ workers' = [workers EXCEPT ![w].h = spawnChild(@, "reload"), ![w].rs = "pidfile"]
        /\ rl' = rl
     \/ /\ workers' = [workers EXCEPT ![w].h.status = "errored", ![w].rs = "err"]
        /\ rl' = IF Awaited(w) THEN [rl EXCEPT !.pc = "failed"] ELSE rl
  /\ UNCHANGED <<sig, before, crashes>> /\ RlFrame

\* the same start(): PID file written and timers armed, or the write failed
RlStartArm(w) ==
  /\ workers[w].rs = "pidfile"
  /\ \/ /\ workers' = [workers EXCEPT ![w].h = armTimers(@), ![w].rs = "ok"]
        /\ rl' = IF Awaited(w) THEN [rl EXCEPT !.pc = "delay"] ELSE rl
     \/ /\ workers' = [workers EXCEPT ![w].h.status = "errored", ![w].rs = "err"]
        /\ rl' = IF Awaited(w) THEN [rl EXCEPT !.pc = "failed"] ELSE rl
  /\ UNCHANGED <<sig, before, crashes>> /\ RlFrame

\* wait_ready: the 100 ms poll saw status online, or listenTimeout passed first
RlPolled ==
  /\ rl.pc = "poll"
  /\ rlKill /\ RlFrame

\* no wait_ready: the delay after start() is over
RlDelayed ==
  /\ rl.pc = "delay"
  /\ rlKill /\ RlFrame

\* the delay between two containers is over
RlGap ==
  /\ rl.pc = "gap"
  /\ rlEnter(workers, rl.i + 1)
  /\ UNCHANGED <<sig, before, crashes>> /\ RlFrame

UptimesOf(h) ==
  IF h.status = "online" /\ h.autorestart /\ h.restartCount < config.maxRestarts
  THEN BOOLEAN ELSE {FALSE}

\* child c of worker w exits: it was signalled by the reload, or it crashed
WorkerExit(w, c, code, short) ==
  /\ c \in workers[w].h.alive
  /\ <<w, c>> \in sig \/ crashes < MaxCrashes
  /\ LET h == exitCallback([workers[w].h EXCEPT !.alive = @ \ {c}], code, short)
     IN /\ h.orphanTimers <= MaxLeak
        /\ h.unstableRestarts <= MaxUnstable
        /\ workers' = [workers EXCEPT ![w].h = [h EXCEPT !.spawnedBy[c] = "none"]]
  /\ crashes' = IF <<w, c>> \in sig THEN crashes ELSE crashes + 1
  /\ sig' = sig \ {<<w, c>>}
  /\ UNCHANGED <<rl, before>> /\ RlFrame

\* a restart timer of worker w fires: restartCount++, start()
WorkerTimerFire(w) ==
  /\ workers[w].ts = "none"
  /\ \E h0 \in (IF workers[w].h.restartTimer
                THEN {[workers[w].h EXCEPT !.restartTimer = FALSE]} ELSE {})
            \cup (IF workers[w].h.orphanTimers > 0
                  THEN {[workers[w].h EXCEPT !.orphanTimers = @ - 1]} ELSE {}) :
       LET r == startCall([h0 EXCEPT !.restartCount = @ + 1])
       IN workers' = [workers EXCEPT ![w].h = r.h,
                                     ![w].ts = IF r.k = "await" THEN "files" ELSE "none"]
  /\ UNCHANGED <<rl, sig, before, crashes>> /\ RlFrame

\* the start() of a restart timer: log files checked, spawn or fail
WorkerStartSpawn(w) ==
  /\ workers[w].ts = "files"
  /\ \/ /\ workers[w].h.nextChild < MaxChildren
        /\ workers' = [workers EXCEPT ![w].h = spawnChild(@, "timer"), ![w].ts = "pidfile"]
     \/ workers' = [workers EXCEPT ![w].h.status = "errored", ![w].ts = "none"]
  /\ UNCHANGED <<rl, sig, before, crashes>> /\ RlFrame

\* the same start(): PID file written and timers armed, or the write failed
WorkerStartArm(w) ==
  /\ workers[w].ts = "pidfile"
  /\ \/ workers' = [workers EXCEPT ![w].h = armTimers(@), ![w].ts = "none"]
     \/ workers' = [workers EXCEPT ![w].h.status = "errored", ![w].ts = "none"]
  /\ UNCHANGED <<rl, sig, before, crashes>> /\ RlFrame

\* what pm.reset's target resolves to in the cluster: one container (an id
\* or a full name) or all of them ("all", the base name, the namespace)
ResetTargets(ws) == {{w} : w \in 1..Len(ws)} \cup {1..Len(ws)}

\* a different reset, which also marks the containers stopped
resetAllStopped(ws, S) ==
  [w \in 1..Len(ws) |->
     IF w \in S
     THEN [ws[w] EXCEPT !.h.restartCount = 0, !.h.unstableRestarts = 0,
                        !.h.status = "stopped"]
     ELSE ws[w]]

\* the loop of pm.reset over the resolved containers
resetAll(ws, S) ==
  [w \in 1..Len(ws) |->
     IF w \in S
     THEN [ws[w] EXCEPT !.h.restartCount = 0, !.h.unstableRestarts = 0]
     ELSE ws[w]]

\* daemon "reset" -> pm.reset(target)
OpResetWorkers(S) ==
  /\ workers' = resetAll(workers, S)
  /\ UNCHANGED <<rl, sig, before, crashes>> /\ RlFrame

InitReload ==
  /\ InitCt /\ config \in ReloadConfigs /\ InitPM
  /\ workers \in [1..MaxWorkers -> WorkerInits]
  /\ rl = NoReload /\ sig = {} /\ before = Snapshot(workers) /\ crashes = 0
  /\ exitLog = NoExit /\ InitAux

NextReload ==
  \/ OpReloadAll
  \/ \E w \in 1..Len(workers) : RlStartSpawn(w)
  \/ \E w \in 1..Len(workers) : RlStartArm(w)
  \/ RlPolled
  \/ RlDelayed
  \/ RlGap
  \/ \E w \in 1..Len(workers), c \in 1..MaxChildren, code \in ExitCodes, short \in BOOLEAN :
       short \in UptimesOf(workers[w].h) /\ WorkerExit(w, c, code, short)
  \/ \E w \in 1..Len(workers) : WorkerTimerFire(w)
  \/ \E w \in 1..Len(workers) : WorkerStartSpawn(w)
  \/ \E w \in 1..Len(workers) : WorkerStartArm(w)
  \/ \E S \in ResetTargets(workers) : OpResetWorkers(S)

SpecReload == InitReload /\ [][NextReload]_vars

\* ---- one entry left to itself: its child exits, handleExit restarts it ----
\* (no operator command, no background trigger, every spawn and file write
\* succeeds; the uptime of every exit is free)

\* start(): the log files are there and Bun.spawn succeeds
StartedSpawn(t) ==
  /\ t.pc = "start_files"
  /\ nextChild < MaxChildren
  /\ Resume(t, t, Await(spawnChild(Heap, t.origin), "start_pidfile", t.c))

\* start(): the PID file is written; arm the timers
StartedArm(t) ==
  /\ t.pc = "start_pidfile"
  /\ Resume(t, t, afterStart(t, armTimers(Heap)))

\* the exit callback runs; the exit is recorded with the state it found
ExitObserved(c, code, short) ==
  /\ ChildExited(c, code, short)
  /\ exitLog' = [code |-> code, short |-> short, was |-> status,
                 unstable |-> unstableRestarts, n |-> exitLog.n + 1,
                 allShort |-> (exitLog.allShort /\ short /\ code # 0)]

InitExit ==
  /\ Init
  /\ config \in {Config(a, m, "none") : a \in BOOLEAN, m \in 0..MaxRestartsCfg}

NextExit ==
  \/ \E t \in BagToSet(tasks) : StartedSpawn(t)
  \/ \E t \in BagToSet(tasks) : StartedArm(t)
  \/ \E c \in 1..MaxChildren, code \in ExitCodes, short \in BOOLEAN :
       ExitObserved(c, code, short)
  \/ RestartTimerFire

\* timers fire, awaited file operations finish, and the child does exit
FairExit ==
  /\ WF_vars(\E t \in BagToSet(tasks) : StartedSpawn(t))
  /\ WF_vars(\E t \in BagToSet(tasks) : StartedArm(t))
  /\ WF_vars(\E c \in 1..MaxChildren, code \in ExitCodes, short \in BOOLEAN :
               ExitObserved(c, code, short))
  /\ WF_vars(RestartTimerFire)

SpecExit == InitExit /\ [][NextExit]_vars /\ FairExit

\* ---- one non-forced stop() of an online entry, against a clock ----

\* `this.config.killTimeout || 5000`
DefaultKillWait == 5000
killWait(killTimeout) == IF killTimeout # 0 THEN killTimeout ELSE DefaultKillWait

KsFrame == UNCHANGED <<ctVars, pmVars, rlVars, exitLog, hc, pureVars, libVars>>

\* stop(false) up to `await treeKill(this.pid, "SIGTERM")`
KsStop ==
  /\ ks.pc = "online"
  /\ ks' = [ks EXCEPT !.pc = "term"]
  /\ KsFrame

\* SIGTERM is delivered; Promise.race of process.exited and the kill timer
KsTermed ==
  /\ ks.pc = "term"
  /\ ks' = [ks EXCEPT !.pc = "wait", !.sent = Append(@, "SIGTERM"),
                      !.termAt = ks.now,
                      !.deadline = ks.now + killWait(ks.killTimeout)]
  /\ KsFrame

\* one ms passes while stop() is suspended; the kill timer is punctual
KsTick ==
  /\ \/ ks.pc = "term" /\ ks.now < MaxSignalDelay
     \/ ks.pc = "wait" /\ ~ks.exited /\ ks.now < ks.deadline
  /\ ks' = [ks EXCEPT !.now = @ + 1]
  /\ KsFrame

\* the child exits: on its own, after SIGTERM, or after SIGKILL
KsChildExit ==
  /\ ks.pc \in {"term", "wait", "reap"}
  /\ ~ks.exited
  /\ ks' = [ks EXCEPT !.exited = TRUE]
  /\ KsFrame

\* the race is decided: the child exited, or the timer fired and SIGKILL is sent
KsRaced ==
  /\ ks.pc = "wait"
  /\ \/ /\ ks.exited
        /\ ks' = [ks EXCEPT !.pc = "stopped"]
     \/ /\ ~ks.exited /\ ks.now = ks.deadline
        /\ ks' = [ks EXCEPT !.pc = "reap", !.sent = Append(@, "SIGKILL"),
                            !.killAt = ks.now]
  /\ KsFrame

\* `await this.process.exited` after SIGKILL, then status = "stopped"
KsReaped ==
  /\ ks.pc = "reap"
  /\ ks.exited
  /\ ks' = [ks EXCEPT !.pc = "stopped"]
  /\ KsFrame

InitKill ==
  /\ InitCt /\ config = Config(FALSE, 0, "none") /\ InitPM /\ InitSide
  /\ ks \in {[NoKill EXCEPT !.pc = "online", !.killTimeout = k] : k \in 0..MaxKillTimeout}
  /\ hc = NoHealth /\ InitPure /\ InitLib

NextKill ==
  \/ KsStop
  \/ KsTermed
  \/ KsTick
  \/ KsChildExit
  \/ KsRaced
  \/ KsReaped

SpecKill == InitKill /\ [][NextKill]_vars

\* ---- the HealthChecker of one service ----

\* `maxFails: this.config.healthCheckMaxFails || 3`
DefaultMaxFails == 3
maxFailsOf(cfg) == IF cfg # 0 THEN cfg ELSE DefaultMaxFails

HcFrame == UNCHANGED <<ctVars, pmVars, rlVars, exitLog, ks, pureVars, libVars>>

\* stopCheck(processId): clearInterval, checks.delete
stopCheck(h) == [h EXCEPT !.cur = 0]

\* a different probe completion, which leaves the counter at max_fails after
\* it has called onUnhealthy
probeDoneNoReset(h, g, ok) ==
  LET c == IF ok THEN 0 ELSE h.st[g].fails + 1
      hit == c >= maxFailsOf(h.cfg)
      h1 == [h EXCEPT !.st[g].fails = c,
                      !.st[g].last = IF ok THEN "healthy" ELSE "unhealthy",
                      !.st[g].inflight = @ - 1,
                      !.raises = IF hit THEN @ + 1 ELSE @,
                      !.n = @ + 1,
                      !.ev = [g |-> g, ok |-> ok, fails |-> h.st[g].fails, raised |-> hit,
                              overlap |-> h.st[g].inflight > 1]]
  IN IF hit THEN stopCheck(h1) ELSE h1

\* the interval callback of state object g after `await fetch(...)`: the
\* counter, the threshold, onUnhealthy -> container.restart() -> stop() ->
\* cleanupTimers() -> stopCheck, and the reset of the counter
probeDone(h, g, ok) ==
  LET c == IF ok THEN 0 ELSE h.st[g].fails + 1
      hit == c >= maxFailsOf(h.cfg)
      h1 == [h EXCEPT !.st[g].fails = IF hit THEN 0 ELSE c,
                      !.st[g].last = IF ok THEN "healthy" ELSE "unhealthy",
                      !.st[g].inflight = @ - 1,
                      !.raises = IF hit THEN @ + 1 ELSE @,
                      !.n = @ + 1,
                      !.ev = [g |-> g, ok |-> ok, fails |-> h.st[g].fails, raised |-> hit,
                              overlap |-> h.st[g].inflight > 1]]
  IN IF hit THEN stopCheck(h1) ELSE h1

\* startCheck: stopCheck, a fresh state object with its interval timer
HcStart ==
  /\ hc.made < MaxProbers
  /\ hc' = [stopCheck(hc) EXCEPT
              !.made = @ + 1, !.cur = hc.made + 1,
              !.st = Append(@, [fails |-> 0, last |-> "unknown", inflight |-> 0])]
  /\ HcFrame

\* the container stops the prober: stop(), handleExit() or restart()
HcStop ==
  /\ hc.cur # 0
  /\ hc' = stopCheck(hc)
  /\ HcFrame

\* the interval timer of the state object in `checks` fires: a probe is sent
HcTick ==
  /\ hc.cur # 0
  /\ hc.started < MaxProbes
  /\ hc' = [hc EXCEPT !.st[hc.cur].inflight = @ + 1, !.started = @ + 1]
  /\ HcFrame

\* a probe of state object g completes: 2xx, or anything else
HcDone(g, ok) ==
  /\ g \in 1..hc.made
  /\ hc.st[g].inflight > 0
  /\ hc' = probeDone(hc, g, ok)
  /\ HcFrame

InitHealth ==
  /\ InitCt /\ config = Config(TRUE, 0, "health") /\ InitPM /\ InitSide
  /\ ks = NoKill /\ InitPure /\ InitLib
  /\ hc \in {[NoHealth EXCEPT !.cfg = m] : m \in 0..MaxFailsCfg}

NextHealth ==
  \/ HcStart
  \/ HcStop
  \/ HcTick
  \/ \E g \in 1..MaxProbers, ok \in BOOLEAN : HcDone(g, ok)

SpecHealth == InitHealth /\ [][NextHealth]_vars

\* ---- save and resurrect ----
\* The registry with the ProcessDescription of each entry, as far as the fields
\* that start(), save() and resurrect() pass on are concerned.  An optional
\* field of StartOptions is <<>> when it is undefined and <<v>> otherwise.
DEFAULT_MAX_RESTARTS == 16
DEFAULT_RESTART_DELAY == 0
orElse(x, d) == IF x = <<>> THEN d ELSE x[1]
StartOptions(name, inst, ar, mr, rd, cr, url, ns) ==
  [name |-> name, instances |-> inst, autorestart |-> ar,
   maxRestarts |-> mr, restartDelay |-> rd, cron |-> cr,
   healthCheckUrl |-> url, namespace |-> ns]
DumpOptions ==
  {StartOptions(<<"api">>, <<n>>, a, m, d, c, u, ns) :
     n \in 1..MaxInst, a \in {<<>>, <<FALSE>>}, m \in {<<>>, <<0>>},
     d \in {<<>>, <<1>>}, c \in {<<>>, <<"0 3 * * *">>},
     u \in {<<>>, <<"/health">>}, ns \in {<<>>, <<"prod">>}}

\* resolveInstances(instances), for undefined or a positive number
resolveInstances(instances) == orElse(instances, 1)
buildConfig(name, options, instances) ==
  [name |-> name,
   instances |-> instances,
   autorestart |-> options.autorestart # <<FALSE>>,
   maxRestarts |-> orElse(options.maxRestarts, DEFAULT_MAX_RESTARTS),
   restartDelay |-> orElse(options.restartDelay, DEFAULT_RESTART_DELAY),
   cronRestart |-> options.cron,
   healthCheckUrl |-> options.healthCheckUrl,
   namespace |-> options.namespace]

\* start(options): one container per instance, each with restartCount 0
RECURSIVE startAll(_, _, _)
startAll(st, options, i) ==
  LET n == resolveInstances(options.instances) IN
  IF i >= n THEN st
  ELSE startAll([st EXCEPT
                   !.processes = Append(@, [id |-> st.nextId,
                                            config |-> buildConfig(nameOf(Option(options.name, n), i),
                                                                   options, n),
                                            restartCount |-> 0]),
                   !.nextId = @ + 1],
                options, i + 1)

\* the options resurrect() passes to start() for one item of the dump
resurrectOptions(item) ==
  StartOptions(item.config.name, <<1>>, <<item.config.autorestart>>,
               <<item.config.maxRestarts>>, <<>>, <<>>, item.config.healthCheckUrl, <<>>)
RECURSIVE resurrectAll(_, _)
resurrectAll(st, data) ==
  IF data = <<>> THEN st
  ELSE resurrectAll(startAll(st, resurrectOptions(Head(data)), 0), Tail(data))

SvFrame == UNCHANGED <<ctVars, pmVars, rlVars, exitLog, ks, hc, rt, cl, libVars>>

\* daemon "save" -> pm.save()
SvSave ==
  /\ sv.pc = "live"
  /\ sv' = [sv EXCEPT !.pc = "saved",
                      !.file = [k \in 1..Len(sv.processes) |->
                                  [config |-> sv.processes[k].config,
                                   restartCount |-> sv.processes[k].restartCount]],
                      !.saved = sv.processes]
  /\ SvFrame

\* daemon "deleteAll" -> pm.deleteAll(), every stop being over
SvDeleteAll ==
  /\ sv.pc = "saved"
  /\ sv' = [sv EXCEPT !.pc = "empty", !.processes = <<>>, !.nextId = 0]
  /\ SvFrame

\* daemon "resurrect" -> pm.resurrect(), every start being over
SvResurrect ==
  /\ sv.pc = "empty"
  /\ sv' = [resurrectAll(sv, sv.file) EXCEPT !.pc = "back"]
  /\ SvFrame

\* one service was started and its entries restarted up to MaxSavedRestarts times
InitDump ==
  /\ InitCt /\ config = Config(FALSE, 0, "none") /\ InitPM /\ InitSide
  /\ ks = NoKill /\ hc = NoHealth /\ rt = NoResolve /\ cl = NoCluster /\ InitLib
  /\ \E options \in DumpOptions, rc \in 0..MaxSavedRestarts :
       LET st == startAll([NoStore EXCEPT !.pc = "live"], options, 0) IN
       sv = [st EXCEPT !.processes =
               [k \in 1..Len(@) |-> [@[k] EXCEPT !.restartCount = rc]]]

NextDump ==
  \/ SvSave
  \/ SvDeleteAll
  \/ SvResurrect

SpecDump == InitDump /\ [][NextDump]_vars

\* ---- target resolution ----
\* Names, namespaces and targets are strings, kept as their "-"-separated
\* tokens: "api-0" is <<"api", "0">>, "api-gw" is <<"api", "gw">>.  An undefined
\* namespace is <<>>.
DigitTokens == {"0", "1", "2"}
parseInt == [d \in DigitTokens |-> CASE d = "0" -> 0 [] d = "1" -> 1 [] d = "2" -> 2]
\* /^\d+$/.test(String(target))
isDecimal(target) == Len(target) = 1 /\ target[1] \in DigitTokens
\* p.name.startsWith(`${target}-`)
startsWithDash(name, target) ==
  Len(target) < Len(name) /\ SubSeq(name, 1, Len(target)) = target
resolveTarget(procs, target) ==
  IF target = <<"all">> THEN procs
  ELSE IF isDecimal(target)
  THEN SelectSeq(procs, LAMBDA p : p.id = parseInt[target[1]])
  ELSE SelectSeq(procs, LAMBDA p : \/ p.name = target
                                    \/ startsWithDash(p.name, target)
                                    \/ p.namespace = target)

RtNames == {<<"api">>, <<"api", "0">>, <<"api", "1">>, <<"api", "gw">>, <<"web">>}
RtNamespaces == {<<>>, <<"api">>, <<"prod">>}
RtTargets ==
  {<<"all">>, <<"prod">>, <<"db">>} \cup {<<d>> : d \in DigitTokens}
    \cup {<<"api">>, <<"api", "0">>, <<"web">>}
\* registries of two entries; ids are in insertion order
RtRegistries ==
  {<<[id |-> i, name |-> n1, namespace |-> s1], [id |-> j, name |-> n2, namespace |-> s2]>> :
     i \in {0}, j \in {1, 2}, n1 \in RtNames, n2 \in RtNames,
     s1 \in RtNamespaces, s2 \in {<<>>, <<"prod">>}}

RtFrame == UNCHANGED <<ctVars, pmVars, rlVars, exitLog, ks, hc, sv, cl, libVars>>

\* a command of the daemon resolves its target
RtResolve(target) ==
  /\ rt.pc = "idle"
  /\ rt' = [rt EXCEPT !.pc = "done", !.target = target,
                      !.result = resolveTarget(rt.processes, target)]
  /\ RtFrame

\* the command is over
RtReturn ==
  /\ rt.pc = "done"
  /\ rt' = [rt EXCEPT !.pc = "idle", !.target = <<>>, !.result = <<>>]
  /\ RtFrame

InitResolve ==
  /\ InitCt /\ config = Config(FALSE, 0, "none") /\ InitPM /\ InitSide
  /\ ks = NoKill /\ hc = NoHealth /\ sv = NoStore /\ cl = NoCluster /\ InitLib
  /\ rt \in {[NoResolve EXCEPT !.pc = "idle", !.processes = r] : r \in RtRegistries}

NextResolve ==
  \/ \E target \in RtTargets : RtResolve(target)
  \/ RtReturn

SpecResolve == InitResolve /\ [][NextResolve]_vars

\* ---- the environment of cluster workers ----
\* An environment is kept as the variables the cluster code sets; a value is the
\* sequence of its characters and <<>> when the variable is not set.
Digit == [d \in 0..9 |-> CASE d = 0 -> "0" [] d = 1 -> "1" [] d = 2 -> "2" [] d = 3 -> "3"
                            [] d = 4 -> "4" [] d = 5 -> "5" [] d = 6 -> "6" [] d = 7 -> "7"
                            [] d = 8 -> "8" [] d = 9 -> "9"]
\* String(n) of a natural number
RECURSIVE String(_)
String(n) == IF n < 10 THEN <<Digit[n]>> ELSE Append(String(n \div 10), Digit[n % 10])
NoEnv == [NODE_APP_INSTANCE |-> <<>>, BM2_INSTANCE_ID |-> <<>>, BM2_CLUSTER |-> <<>>,
          BM2_WORKER_ID |-> <<>>, BM2_INSTANCES |-> <<>>, PORT |-> <<>>]
\* the env of buildConfig(id, name, options, instances, workerIndex), options.env being empty
configEnv(instances, workerIndex) ==
  IF instances > 1
  THEN [NoEnv EXCEPT !.NODE_APP_INSTANCE = String(workerIndex),
                     !.BM2_INSTANCE_ID = String(workerIndex)]
  ELSE NoEnv
createWorkerEnv(baseEnv, workerId, totalWorkers, basePort) ==
  LET e == [baseEnv EXCEPT !.BM2_CLUSTER = <<"t", "r", "u", "e">>,
                           !.BM2_WORKER_ID = String(workerId),
                           !.BM2_INSTANCES = String(totalWorkers),
                           !.NODE_APP_INSTANCE = String(workerId)]
  IN IF basePort # <<>> /\ basePort[1] # 0
     THEN [e EXCEPT !.PORT = String(basePort[1] + workerId)]
     ELSE e
\* the env of the child that spawnWorker(config, workerId, totalWorkers) spawns
spawnWorker(cfg, workerId, totalWorkers) ==
  createWorkerEnv(cfg.env, workerId, totalWorkers, cfg.port)
\* startCluster(): this.clusterManager.spawnWorker(this.config, 0, this.config.instances, ...)
startCluster(cfg) == spawnWorker(cfg, 0, cfg.instances)

ClusterPorts == {<<>>, <<3000>>, <<8099>>}
ClFrame == UNCHANGED <<ctVars, pmVars, rlVars, exitLog, ks, hc, sv, rt, libVars>>

\* pm.start(options), one turn of its loop: the container of the next instance
\* is built and registered (the one before it has started)
ClCreate ==
  /\ Len(cl.entries) < cl.instances
  /\ \A k \in 1..Len(cl.entries) : cl.entries[k].spawns >= 1
  /\ LET i == Len(cl.entries) IN
     cl' = [cl EXCEPT !.entries =
              Append(@, [id |-> i,
                         name |-> nameOf(Option(cl.name, cl.instances), i),
                         config |-> [instances |-> cl.instances, port |-> cl.port,
                                     env |-> configEnv(cl.instances, i)],
                         spawns |-> 0, env |-> NoEnv])]
  /\ ClFrame

\* container.start() of worker k reaches startCluster(): at the first start and
\* at every restart after its child has exited
ClSpawn(k) ==
  /\ k \in 1..Len(cl.entries)
  /\ cl.entries[k].spawns < MaxSpawns
  /\ cl' = [cl EXCEPT !.entries[k].spawns = @ + 1,
                      !.entries[k].env = startCluster(cl.entries[k].config)]
  /\ ClFrame

InitCluster ==
  /\ InitCt /\ config = Config(FALSE, 0, "none") /\ InitPM /\ InitSide
  /\ ks = NoKill /\ hc = NoHealth /\ sv = NoStore /\ rt = NoResolve /\ InitLib
  /\ cl \in {[NoCluster EXCEPT !.pc = "start", !.name = <<"api">>, !.instances = n, !.port = p] :
                n \in 2..MaxClusterInst, p \in ClusterPorts}

NextCluster ==
  \/ ClCreate
  \/ \E k \in 1..MaxClusterInst : ClSpawn(k)

SpecCluster == InitCluster /\ [][NextCluster]_vars

\* ---- the cron field matcher ----
\* A field expression is the list of its comma-separated parts; a part is kept
\* as what split("/"), split("-") and parseInt make of it: "*" alone, a literal
\* a, a range a-b, a step */s, a stepped range a-b/s.
CronPart(kind, a, b, s) == [kind |-> kind, a |-> a, b |-> b, s |-> s]
CronParts ==
  {CronPart("lit", a, a, 1) : a \in 0..MaxField}
    \cup {CronPart("range", a, b, 1) : a \in 0..MaxField, b \in 0..MaxField}
    \cup {CronPart("starStep", 0, 0, s) : s \in 1..MaxStep}
    \cup {CronPart("rangeStep", a, b, s) : a \in 0..2, b \in 2..4, s \in 1..MaxStep}
CronExprs ==
  {<<CronPart("star", 0, 0, 1)>>} \cup {<<q>> : q \in CronParts}
    \cup {<<CronPart("lit", a, a, 1), CronPart("lit", b, b, 1)>> : a \in 0..2, b \in 3..4}

\* one turn of the loop of matchField(value, expr, max) over expr.split(",")
matchPart(value, part) ==
  IF part.kind \in {"starStep", "rangeStep"}
  THEN \* part.includes("/"): start = range === "*" ? 0 : parseInt(range); parseInt("a-b") is a
       LET start == IF part.kind = "starStep" THEN 0 ELSE part.a
       IN value >= start /\ (value - start) % part.s = 0
  ELSE IF part.kind = "range"
  THEN value >= part.a /\ value <= part.b
  ELSE value = part.a
matchField(value, expr) ==
  IF expr = <<CronPart("star", 0, 0, 1)>> THEN TRUE
  ELSE \E k \in 1..Len(expr) : matchPart(value, expr[k])

CrFrame == UNCHANGED <<ctVars, pmVars, rlVars, exitLog, ks, hc, pureVars, ap, lg, dm, ipc>>

\* next(): one field of the candidate minute is matched
CrMatch ==
  /\ cm.pc = "ask"
  /\ cm' = [cm EXCEPT !.pc = "done", !.result = matchField(cm.value, cm.expr)]
  /\ CrFrame

InitCron ==
  /\ InitCt /\ config = Config(TRUE, 0, "cron") /\ InitPM /\ InitSide
  /\ ks = NoKill /\ hc = NoHealth /\ InitPure /\ ap = NoClient /\ lg = NoLog /\ dm = NoDaemon /\ ipc = NoIpc
  /\ cm \in {[NoCron EXCEPT !.pc = "ask", !.expr = e, !.value = v] :
               e \in CronExprs, v \in 0..MaxField}

NextCron == CrMatch

SpecCron == InitCron /\ [][NextCron]_vars

\* ---- the API client's metrics polling ----
\* A timer is its id (1, 2, ...); _pollTimer is 0 when it is null.
stopPolling(a) ==
  IF a.pollTimer # 0
  THEN [a EXCEPT !.armed = @ \ {a.pollTimer}, !.pollTimer = 0]
  ELSE a
startPollingKeeps(a) ==
  LET id == a.nextTimer + 1
  IN [a EXCEPT !.pollTimer = id, !.armed = @ \cup {id}, !.nextTimer = id]
startPolling(a) ==
  LET b == stopPolling(a)
      id == b.nextTimer + 1
  IN [b EXCEPT !.pollTimer = id, !.armed = @ \cup {id}, !.nextTimer = id]
\* the call `op` has returned
returned(a, b, op) ==
  [b EXCEPT !.n = @ + 1, !.last = op, !.cleared = (a.armed # {} /\ b.armed = {})]

ApFrame == UNCHANGED <<ctVars, pmVars, rlVars, exitLog, ks, hc, pureVars, cm, lg, dm, ipc>>
ApCall == ap.calls < MaxApiCalls

ApStartPolling ==
  /\ ApCall
  /\ ap' = returned(ap, startPolling([ap EXCEPT !.calls = @ + 1]), "startPolling")
  /\ ApFrame

ApStopPolling ==
  /\ ApCall
  /\ ap' = returned(ap, stopPolling([ap EXCEPT !.calls = @ + 1]), "stopPolling")
  /\ ApFrame

\* disconnect(): stopPolling(), _connected = false
ApDisconnect ==
  /\ ApCall
  /\ ap' = returned(ap, stopPolling([ap EXCEPT !.calls = @ + 1]), "disconnect")
  /\ ApFrame

\* kill() up to `await this.send({ type: "kill" })`
ApKill ==
  /\ ApCall /\ ap.kills < MaxKills
  /\ ap' = [ap EXCEPT !.calls = @ + 1, !.kills = @ + 1]
  /\ ApFrame

\* kill(): the send is over (answered or failed); files removed, stopPolling()
ApKilled ==
  /\ ap.kills > 0
  /\ ap' = returned(ap, stopPolling([ap EXCEPT !.kills = @ - 1]), "kill")
  /\ ApFrame

\* the interval fires: metrics() is requested, no timer is touched
ApTick ==
  /\ ap.armed # {}
  /\ ap.last # "tick"
  /\ ap' = [ap EXCEPT !.last = "tick"]
  /\ ApFrame

InitApi ==
  /\ InitCt /\ config = Config(FALSE, 0, "none") /\ InitPM /\ InitSide
  /\ ks = NoKill /\ hc = NoHealth /\ InitPure /\ cm = NoCron /\ lg = NoLog /\ dm = NoDaemon /\ ipc = NoIpc
  /\ ap = NoClient

NextApi ==
  \/ ApStartPolling
  \/ ApStopPolling
  \/ ApDisconnect
  \/ ApKill
  \/ ApKilled
  \/ ApTick

SpecApi == InitApi /\ [][NextApi]_vars

\* ---- the LogManager for one log file ----
\* files[1] is the active file f, files[k + 1] the rotated segment f.k.  A file
\* is the sequence of the lines in it (a line is its arrival number); its size is
\* the number of lines.
File(data) == [exists |-> TRUE, data |-> data]

\* rotate(): for (i = retain - 1; i >= 1; i--) renameSync(i === 1 ? f : f.(i-1), f.i),
\* from turn i down to turn 1
RECURSIVE renames(_, _)
renames(files, i) ==
  IF i < 1 THEN files
  ELSE renames(IF files[i].exists
               THEN [files EXCEPT ![i + 1] = files[i], ![i] = NoFile]
               ELSE files,
               i - 1)
\* rotate(): the rotated files, sorted and reversed, lose all but the first `retain`
cleanExcess(files, retain) ==
  [k \in 1..Len(files) |->
     IF k > 1 /\ files[k].exists
        /\ Cardinality({j \in (k + 1)..Len(files) : files[j].exists}) >= retain
     THEN NoFile ELSE files[k]]

LgFrame == UNCHANGED <<ctVars, pmVars, rlVars, exitLog, ks, hc, pureVars, cm, ap, dm, ipc>>

\* appendLog(filePath, data)
LgAppend ==
  /\ lg.lines < MaxLines
  /\ lg' = [lg EXCEPT !.lines = @ + 1, !.buf = Append(@, lg.lines + 1), !.timer = TRUE]
  /\ LgFrame

\* the debounce timer fires: flushBuffer() up to `await file.exists()`
LgFlushFire ==
  /\ lg.timer /\ lg.buf # <<>>
  /\ Cardinality(lg.fl) < MaxFlushes
  /\ lg' = [lg EXCEPT !.buf = <<>>, !.timer = FALSE,
                      !.fl = @ \cup {[pc |-> "read", content |-> lg.buf, existing |-> <<>>]}]
  /\ LgFrame

\* flushBuffer(): existing = (await file.exists()) ? await file.text() : ""
LgFlushRead(x) ==
  /\ x \in lg.fl /\ x.pc = "read"
  /\ lg' = [lg EXCEPT !.fl = (@ \ {x}) \cup
              {[x EXCEPT !.pc = "write",
                         !.existing = IF lg.files[1].exists THEN lg.files[1].data ELSE <<>>]}]
  /\ LgFrame

\* flushBuffer(): await Bun.write(filePath, existing + content)
LgFlushWrite(x) ==
  /\ x \in lg.fl /\ x.pc = "write"
  /\ lg' = [lg EXCEPT !.fl = @ \ {x}, !.files[1] = File(x.existing \o x.content)]
  /\ LgFrame

\* checkRotation() -> rotate() up to `await file.exists()`
LgRotate ==
  /\ lg.rot = "none"
  /\ lg' = [lg EXCEPT !.rot = "exists"]
  /\ LgFrame

\* rotate(): the size check, the renames and the clean-up, up to the truncating write
LgRotRename ==
  /\ lg.rot = "exists"
  /\ IF ~lg.files[1].exists \/ Len(lg.files[1].data) < LogMaxSize
     THEN lg' = [lg EXCEPT !.rot = "none"]
     ELSE lg' = [lg EXCEPT !.rot = "write", !.rotated = @ + 1,
                           !.files = cleanExcess(renames(lg.files, lg.retain - 1), lg.retain)]
  /\ LgFrame

\* rotate(): await Bun.write(filePath, "")
LgRotTruncated ==
  /\ lg.rot = "write"
  /\ lg' = [lg EXCEPT !.rot = "none", !.files[1] = File(<<>>)]
  /\ LgFrame

InitLog ==
  /\ InitCt /\ config = Config(FALSE, 0, "none") /\ InitPM /\ InitSide
  /\ ks = NoKill /\ hc = NoHealth /\ InitPure /\ cm = NoCron /\ ap = NoClient /\ dm = NoDaemon /\ ipc = NoIpc
  /\ lg \in {[NoLog EXCEPT !.retain = n,
                           !.files = [k \in 1..(MaxRetain + 2) |->
                                        IF k = 1 THEN File(<<>>) ELSE NoFile]] :
               n \in 2..MaxRetain}

NextLog ==
  \/ LgAppend
  \/ LgFlushFire
  \/ \E x \in lg.fl : LgFlushRead(x)
  \/ \E x \in lg.fl : LgFlushWrite(x)
  \/ LgRotate
  \/ LgRotRename
  \/ LgRotTruncated

SpecLog == InitLog /\ [][NextLog]_vars

\* ---- the daemon's start-up (daemon.ts) and the CLI's startDaemon (index.ts) ----
\* dm.pid is the content of DAEMON_PID_FILE and dm.sock the process bound to
\* the file DAEMON_SOCKET (0: the file does not exist); dm.procs[d] is the
\* position of daemon process d, dm.clis the startDaemon calls in flight.
DmFrame == UNCHANGED <<ctVars, pmVars, rlVars, exitLog, ks, hc, pureVars, cm, ap, lg, ipc>>

DmLive(d) == d \in 1..Len(dm.procs) /\ dm.procs[d] # "dead"

\* isDaemonRunning(): the PID file exists and names a process that exists
isDaemonRunning == dm.pid # 0 /\ DmLive(dm.pid)

\* the socket file exists and its owner answers a ping
Answers == dm.sock # 0 /\ dm.procs[dm.sock] = "serving"

\* cleanupStaleFiles()
cleanupStaleFiles(d) == [d EXCEPT !.sock = 0, !.pid = 0]

\* Bun.spawn([bunPath, "run", daemonScript]): a new daemon process at the top
\* of daemon.ts.
spawnDaemon(d) == [d EXCEPT !.procs = Append(@, "boot")]

\* process.kill(pid, "SIGTERM"): a daemon that has installed its handlers
\* runs shutdown (unlinks socket and PID file), one that has not dies.
sigterm(d, target) ==
  IF ~(target \in 1..Len(d.procs)) \/ d.procs[target] = "dead" THEN d
  ELSE IF d.procs[target] = "serving"
       THEN [d EXCEPT !.procs[target] = "dead", !.sock = 0, !.pid = 0]
       ELSE [d EXCEPT !.procs[target] = "dead"]

\* startDaemon() up to its first await or its return
DmCliStart ==
  /\ dm.calls < MaxCliCalls
  /\ LET d == [dm EXCEPT !.calls = @ + 1] IN
       IF isDaemonRunning
       THEN IF dm.sock # 0 THEN dm' = d
            ELSE dm' = [d EXCEPT !.clis = @ (+) One("wait")]
       ELSE /\ Len(dm.procs) < MaxDaemons
            /\ dm' = [spawnDaemon(cleanupStaleFiles(d)) EXCEPT !.clis = @ (+) One("sock")]
  /\ DmFrame

\* the wait for the socket of a live process: the socket appears, or the
\* twenty tries are used up and the process of the PID file is signalled
DmCliWait ==
  /\ BagIn("wait", dm.clis)
  /\ \/ /\ dm.sock # 0
        /\ dm' = [dm EXCEPT !.clis = @ (-) One("wait")]
     \/ /\ dm.sock = 0
        /\ dm' = [sigterm(dm, dm.pid) EXCEPT !.clis = (@ (-) One("wait")) (+) One("killed")]
  /\ DmFrame

\* after Bun.sleep(500): cleanupStaleFiles() and the spawn
DmCliRespawn ==
  /\ BagIn("killed", dm.clis)
  /\ Len(dm.procs) < MaxDaemons
  /\ dm' = [spawnDaemon(cleanupStaleFiles(dm)) EXCEPT
              !.clis = (@ (-) One("killed")) (+) One("sock")]
  /\ DmFrame

\* the wait for the new daemon's socket: it appears, or the fifty tries are
\* used up and startDaemon throws
DmCliSock ==
  /\ BagIn("sock", dm.clis)
  /\ dm' = [dm EXCEPT !.clis = @ (-) One("sock")]
  /\ DmFrame

\* daemon.ts 36-42: unlink the socket if it exists, then write the PID file
DmBoot(d) ==
  /\ d \in 1..Len(dm.procs) /\ dm.procs[d] = "boot"
  /\ dm' = [dm EXCEPT !.sock = 0, !.procs[d] = "write"]
  /\ DmFrame

DmWritten(d) ==
  /\ d \in 1..Len(dm.procs) /\ dm.procs[d] = "write"
  /\ dm' = [dm EXCEPT !.pid = d, !.procs[d] = "load"]
  /\ DmFrame

\* moduleManager.loadAll() returns and Bun.serve({unix: DAEMON_SOCKET}) binds;
\* on a path that exists the bind replaces the file or fails, and the failure
\* ends the process.
DmServe(d) ==
  /\ d \in 1..Len(dm.procs) /\ dm.procs[d] = "load"
  /\ \/ dm' = [dm EXCEPT !.sock = d, !.procs[d] = "serving"]
     \/ /\ dm.sock # 0
        /\ dm' = [dm EXCEPT !.procs[d] = "dead"]
  /\ DmFrame

\* a daemon is killed with SIGKILL or crashes: its files stay behind
DmCrash(d) ==
  /\ DmLive(d)
  /\ dm' = [dm EXCEPT !.procs[d] = "dead"]
  /\ DmFrame

InitDaemon ==
  /\ InitCt /\ config = Config(FALSE, 0, "none") /\ InitPM /\ InitSide
  /\ ks = NoKill /\ hc = NoHealth /\ InitPure /\ cm = NoCron /\ ap = NoClient /\ lg = NoLog /\ ipc = NoIpc
  /\ dm = NoDaemon

NextDaemon ==
  \/ DmCliStart
  \/ DmCliWait
  \/ DmCliRespawn
  \/ DmCliSock
  \/ \E d \in 1..MaxDaemons : DmBoot(d)
  \/ \E d \in 1..MaxDaemons : DmWritten(d)
  \/ \E d \in 1..MaxDaemons : DmServe(d)
  \/ \E d \in 1..MaxDaemons : DmCrash(d)

SpecDaemon == InitDaemon /\ [][NextDaemon]_vars

\* ---- the daemon's request dispatch (daemon.ts handleMessage, websocket.message) ----
\* A frame is [id, type]: id 0 stands for a frame JSON.parse rejects, which
\* has no id to read.  The types stand for the cases of the switch by what
\* they do: "list" answers without suspending, "start" awaits an operation
\* that returns, "fails" awaits an operation that throws, "kill" is the kill
\* case and "bogus" a type the switch does not know.
IpcFrame == UNCHANGED <<ctVars, pmVars, rlVars, exitLog, ks, hc, pureVars, cm, ap, lg, dm>>

MsgTypes == {"list", "start", "fails", "kill", "bogus"}

\* a dispatcher whose responses do not mirror the id
responseNoId(msg, ok) ==
  IF ok THEN [type |-> msg.type, success |-> TRUE, id |-> 0]
  ELSE [type |-> "error", success |-> FALSE, id |-> 0]

\* the value handleMessage resolves to
response(msg, ok) ==
  IF ok THEN [type |-> msg.type, success |-> TRUE, id |-> msg.id]
  ELSE [type |-> "error", success |-> FALSE, id |-> msg.id]

\* the response of the catch of websocket.message, which has no id
parseError == [type |-> "error", success |-> FALSE, id |-> 0]

\* websocket.message up to the first await that suspends
IpcMessage(type, parses) ==
  /\ ipc.exit # "exited"
  /\ Len(ipc.reqs) < MaxReqs
  /\ LET msg == [id |-> IF parses THEN Len(ipc.reqs) + 1 ELSE 0, type |-> type]
         got == [ipc EXCEPT !.reqs = Append(@, msg)] IN
       IF ~parses THEN ipc' = [got EXCEPT !.sent = Append(@, parseError)]
       ELSE IF type = "list" THEN ipc' = [got EXCEPT !.sent = Append(@, response(msg, TRUE))]
       ELSE IF type = "bogus" THEN ipc' = [got EXCEPT !.sent = Append(@, response(msg, FALSE))]
       ELSE ipc' = [got EXCEPT !.inflight = @ \cup {msg}]
  /\ IpcFrame

\* the awaited operation settles: handleMessage returns and ws.send runs; the
\* kill case arms the timer of process.exit(0) before it returns
IpcSettled(msg) ==
  /\ ipc.exit # "exited"
  /\ msg \in ipc.inflight
  /\ ipc' = [ipc EXCEPT !.inflight = @ \ {msg},
                        !.sent = Append(@, response(msg, msg.type # "fails")),
                        !.exit = IF msg.type = "kill" THEN "armed" ELSE @]
  /\ IpcFrame

\* setTimeout(() => process.exit(0), 200) fires
IpcExit ==
  /\ ipc.exit = "armed"
  /\ ipc' = [ipc EXCEPT !.exit = "exited"]
  /\ IpcFrame

InitIpc ==
  /\ InitCt /\ config = Config(FALSE, 0, "none") /\ InitPM /\ InitSide
  /\ ks = NoKill /\ hc = NoHealth /\ InitPure /\ cm = NoCron /\ ap = NoClient /\ lg = NoLog /\ dm = NoDaemon
  /\ ipc = NoIpc

NextIpc ==
  \/ \E type \in MsgTypes, parses \in BOOLEAN : IpcMessage(type, parses)
  \/ \E msg \in ipc.inflight : IpcSettled(msg)
  \/ IpcExit

SpecIpc == InitIpc /\ [][NextIpc]_vars

\* ---- claims ----
Up == {"launching", "online", "stopping"}
StopLogged == lastCmd.op = "stop" /\ lastCmd.ret = "ok"
StopIssued == cmds' # cmds /\ lastCmd'.op = "stop"

\* C1: in every reachable state an entry whose state is stopped, errored or
\* waiting-restart holds no child handle (the "only if" half of: child handle
\* iff state is launching, online or stopping).
C1_DownHoldsNoChild == status \notin Up => process = 0

\* C2: the entry has at most one live OS child, and every live child spawned for
\* it is the one the entry references.
C2_OneOwnedChild == Cardinality(alive) <= 1 /\ alive \subseteq {process}

\* C3: restart_count <= max_restarts in every reachable state.
C3_RestartCap == restartCount <= config.maxRestarts

\* C4: when the child of an online entry exits, a restart is scheduled iff
\* autorestart and restart_count < max_restarts; at restart_count >= max_restarts
\* the entry becomes errored, and from then on no child is spawned automatically
\* (by the restart timer or a background trigger) until an operator reset or restart.
C4_ExitPolicy ==
  [][/\ (status = "online" /\ process \in alive /\ process \notin alive')
          => /\ (status' = "waiting-restart" /\ restartTimer')
                  <=> (autorestart /\ restartCount < config.maxRestarts)
             /\ restartCount >= config.maxRestarts => status' = "errored"
     /\ capHit => \A c \in alive' \ alive : spawnedBy'[c] \notin AutoOrigins]_vars

\* C5: after a Stop that completed with nothing else in flight, the entry is still
\* registered, has no child, and no child is spawned for it while Stop stays the
\* operator's last command.
C5_StopStays ==
  [][(StopLogged /\ lastCmd.quiet)
       => /\ registered /\ process = 0
          /\ lastCmd' = lastCmd => alive' \subseteq alive]_vars

\* C6: a Stop issued while an operator Restart of the entry is in progress is
\* applied after it: once everything has completed the entry is stopped with no
\* live child.
C6_StopAfterRestart ==
  (lastCmd.op = "stop" /\ lastCmd.busy /\ tasks = EmptyBag)
     => (status = "stopped" /\ alive = {})

\* C7: after a Stop issued on a launching entry has returned, the entry has no
\* child and the start that was in progress does not bring it online.
C7_StopWhileLaunching ==
  (StopLogged /\ lastCmd.at = "launching") => (process = 0 /\ status # "online")

\* C8: Stop on a waiting-restart entry ends in stopped; while that Stop stays the
\* operator's last command no restart timer fires: restart_count is not
\* incremented and no child is spawned by a restart timer.
C8_StopCancelsTimer ==
  [][/\ (StopIssued /\ status = "waiting-restart") => status' = "stopped"
     /\ (StopLogged /\ lastCmd.at = "waiting-restart")
          => (lastCmd' = lastCmd
                => /\ restartCount' <= restartCount
                   /\ \A c \in alive' \ alive : spawnedBy'[c] # "timer")]_vars

\* C9: when the second of two Stops in a row has completed the entry is stopped,
\* and a Stop on a stopping entry changes nothing.
C9_StopTwice ==
  [][/\ (stopsInRow = 1 /\ stopsInRow' = 2) => status' = "stopped"
     /\ (StopIssued /\ status = "stopping") => Heap' = Heap]_vars

\* C10: no two registered entries have the same name.
C10_UniqueNames ==
  \A j, k \in 1..Len(processes) : processes[j].name = processes[k].name => j = k

\* C11: when Reload sends SIGTERM to the old child of an entry, a child that
\* this reload spawned for the entry, other than the old one, is alive, and
\* the signalled process is not the entry's current child.
C11_DualRun ==
  [][(rl.pc \in {"poll", "delay"} /\ rl'.pc \in {"gap", "done"} /\ rl.old # 0)
       => /\ \E c \in workers[rl.i].h.alive :
               c # rl.old /\ workers[rl.i].h.spawnedBy[c] = "reload"
          /\ workers[rl.i].h.pid # rl.old]_vars

Reloading == rl.pc \notin {"idle", "done", "failed"}
AllOnlineAtStart == \A w \in DOMAIN before : before[w].status = "online"
SomeOnline == \E w \in DOMAIN workers : workers[w].h.status = "online"

Settled ==
  /\ sig = {}
  /\ \A w \in DOMAIN workers :
       /\ ~workers[w].h.restartTimer /\ workers[w].h.orphanTimers = 0
       /\ workers[w].rs \notin {"files", "pidfile"} /\ workers[w].ts = "none"

\* C13: once a Reload of online entries has completed and its effects have
\* settled (no child exited by itself), every entry is online with a live
\* child whose pid differs from the one before the reload, and its
\* restartCount is one higher than before.
C13_AllFresh ==
  (rl.pc = "done" /\ AllOnlineAtStart /\ crashes = 0 /\ Settled)
    => \A w \in DOMAIN workers :
         /\ workers[w].h.status = "online"
         /\ workers[w].h.pid # 0 /\ workers[w].h.pid \in workers[w].h.alive
         /\ workers[w].h.pid # before[w].pid
         /\ workers[w].h.restartCount = before[w].restartCount + 1

\* C14: once the start() that Reload called on the entry it is working on has
\* failed, the reload does not go on: it stays in its readiness wait or has
\* aborted, it moves to no later entry and signals nothing, with wait_ready
\* and without it.
C14_AbortOnFailure ==
  [][(rl.pc # "idle" /\ workers[rl.i].rs = "err")
       => (rl'.pc \in {"poll", "failed"} /\ rl'.i = rl.i /\ sig' \subseteq sig)]_vars

\* no restart timer, monitor, watcher, debounce, health check or cron job of
\* the entry is armed
NothingArmed ==
  /\ ~restartTimer /\ orphanTimers = 0
  /\ ~monitorInterval /\ leakedMonitors = 0
  /\ ~watcher /\ leakedWatchers = 0 /\ ~debounce
  /\ ~health /\ ~cron

\* C15: once Delete has removed the entry from the registry, the entry has no
\* live child and nothing armed, and no child is spawned for it afterwards.
C15_DeleteIsFinal ==
  [][~registered => (alive = {} /\ NothingArmed /\ alive' \subseteq alive)]_vars

\* the entry is errored at the cap: counters at max_restarts, no child, no
\* timer, no start() in flight
ErroredAtCap ==
  /\ status = "errored"
  /\ restartCount = config.maxRestarts /\ unstableRestarts = config.maxRestarts
  /\ alive = {} /\ ~restartTimer /\ orphanTimers = 0

\* C16: with autorestart on and max_restarts = N, if every exit of the child
\* has a non-zero code and comes before min_uptime, the entry eventually is
\* errored with restartCount = N and unstableRestarts = N and stays so, with
\* no child and nothing left that would spawn one.
C16_CapReached ==
  config.autorestart => <>[](~exitLog.allShort \/ ErroredAtCap)

\* an entry with autorestart on and max_restarts >= 1 has been restarted
\* max_restarts times after short failing exits and is errored at the cap
C16_Witness ==
  /\ config.autorestart /\ config.maxRestarts >= 1
  /\ exitLog.allShort /\ exitLog.n = config.maxRestarts + 1
  /\ ErroredAtCap /\ tasks = EmptyBag

\* C17: an exit before min_uptime has raised unstableRestarts by exactly one,
\* whatever autorestart and restartCount were; any other exit has left it
\* unchanged.
C17_ShortExitCounted ==
  exitLog.n > 0
    => unstableRestarts = exitLog.unstable + (IF exitLog.short THEN 1 ELSE 0)

\* C18: when the child of an online entry with autorestart off exits, no
\* restart timer is armed and the entry is stopped after exit code 0 and
\* errored after any other code.
C18_NoAutorestart ==
  [][(status = "online" /\ ~autorestart /\ exitLog'.n = exitLog.n + 1)
       => /\ ~restartTimer'
          /\ status' = IF exitLog'.code = 0 THEN "stopped" ELSE "errored"]_vars

\* C19: the entry's pid is set exactly when it holds a child handle.
C19_PidIffHandle ==
  (pid # 0) <=> (process # 0)

\* the entry holds its second child: handle and pid were cleared together
\* for the first one and set together again
C19_Witness ==
  nextChild = 2 /\ pid = 2 /\ process = 2 /\ 1 \notin alive

\* the step changed nothing but the two counters of the containers in S,
\* which are now 0
ResetFrame(S) ==
  /\ DOMAIN workers' = DOMAIN workers
  /\ \A w \in DOMAIN workers :
       IF w \in S
       THEN /\ workers'[w].h.restartCount = 0
            /\ workers'[w].h.unstableRestarts = 0
            /\ [workers'[w] EXCEPT !.h.restartCount = workers[w].h.restartCount,
                                   !.h.unstableRestarts = workers[w].h.unstableRestarts]
                 = workers[w]
       ELSE workers'[w] = workers[w]
  /\ UNCHANGED <<rl, sig, config, processes, nextId, dump>>

\* C20: Reset(T) sets restartCount and unstableRestarts of the entries T
\* resolves to to 0 and changes nothing else: their status, child, pid,
\* timers and configuration, every other entry, the registry and a reload in
\* flight stay as they were.
C20_ResetFrame ==
  [][\A S \in ResetTargets(workers) : OpResetWorkers(S) => ResetFrame(S)]_vars

\* one worker that had been restarted has its counter back at 0 and is still
\* online with its child, while another keeps its non-zero counter
C20_Witness ==
  \E w, v \in DOMAIN workers :
    /\ before[w].restartCount > 0 /\ workers[w].h.restartCount = 0
    /\ workers[w].h.status = "online" /\ workers[w].h.pid = before[w].pid
    /\ workers[v].h.restartCount > 0

\* C21: a non-forced Stop sends SIGTERM first; SIGKILL follows only when
\* kill_timeout ms have passed since then; with kill_timeout = 0 no time
\* passes between SIGTERM and the end of the wait.
C21_KillAfterTimeout ==
  /\ Len(ks.sent) >= 1 => ks.sent[1] = "SIGTERM"
  /\ Len(ks.sent) >= 2 => /\ ks.sent = <<"SIGTERM", "SIGKILL">>
                          /\ ks.killAt - ks.termAt >= ks.killTimeout
  /\ (ks.killTimeout = 0 /\ ks.pc = "wait") => ks.now = ks.termAt

\* C22: a completed probe with a 2xx response sets the failure counter to 0
\* and the status to healthy; any other outcome adds 1 to the counter; when
\* the counter reaches max_fails, Unhealthy is raised once and the counter is
\* 0 again; between probes 0 <= counter < max_fails, overlapping probes
\* included.
C22_ProbeCounter ==
  /\ [](\A g \in 1..hc.made :
          hc.st[g].fails >= 0 /\ hc.st[g].fails < maxFailsOf(hc.cfg))
  /\ [][hc'.n = hc.n + 1 =>
          LET g == hc'.ev.g
              c == hc.st[g].fails
          IN IF hc'.ev.ok
             THEN /\ hc'.st[g].fails = 0 /\ hc'.st[g].last = "healthy"
                  /\ hc'.raises = hc.raises
             ELSE IF c + 1 < maxFailsOf(hc.cfg)
                  THEN hc'.st[g].fails = c + 1 /\ hc'.raises = hc.raises
                  ELSE hc'.st[g].fails = 0 /\ hc'.raises = hc.raises + 1]_vars

\* with max_fails >= 2, a failed probe that overlapped another one has
\* brought the counter to max_fails: Unhealthy was raised once, the counter
\* is 0
C22_Witness ==
  /\ maxFailsOf(hc.cfg) >= 2
  /\ hc.ev.raised /\ hc.ev.overlap /\ ~hc.ev.ok
  /\ hc.raises = 1 /\ hc.st[hc.ev.g].fails = 0

\* C23: every Unhealthy callback comes from the state object that is in
\* `checks` at that moment: a prober that has been stopped raises none.
C23_StoppedProberSilent ==
  [][hc'.raises > hc.raises => hc'.ev.g = hc.cur]_vars

\* the restart that the monitor began after a sample above the memory cap
\* returns in this step, the entry online
MemoryRestartDone ==
  \E t \in BagToSet(tasks) :
    /\ t.origin = "memory" /\ t.kind = "restart" /\ t.pc = "start_pidfile"
    /\ tasks' = tasks (-) One(t)
    /\ status' = "online"

\* C24: when the restart caused by a memory sample above the cap has
\* completed (no operator command was given, so no reset, and the child did
\* not crash by itself), the entry has a child with a new pid and its
\* restartCount, 0 before, has been increased.
C24_MemoryRestartCounted ==
  [][(cmds = 0 /\ ~capHit /\ MemoryRestartDone)
       => (pid' # 0 /\ pid' \in alive' /\ restartCount' >= 1)]_vars

\* C25: the id counter of the registry never goes back: an id handed to a new
\* entry is greater than every id handed out before it, also after every entry
\* was deleted
C25_IdsNeverReused == [][nextId' >= nextId]_vars

\* C27: when the scale-down loop removes an entry from the registry (c.stop(true)
\* has returned and processes.delete(c.id) runs), the child of that entry has
\* been terminated and reaped
C27_RemovedIsReaped == [][(registered /\ ~registered') => alive' = {}]_vars

\* scale() has returned: it was issued with no other command in flight, none was
\* issued since, and every start or stop it awaited is over
ScaleReturned == lastScale.on /\ lastScale.alone /\ pmTasks = EmptyBag
\* C26: after Scale(T, n) above the current number of instances, the service has
\* exactly n entries, named T-0 ... T-(n-1)
C26_ScaleUpNames ==
  (ScaleReturned /\ lastScale.count > lastScale.was)
    => LET of == resolveName(lastScale.base) IN
       /\ Len(of) = lastScale.count
       /\ {of[k].name : k \in 1..Len(of)}
            = {Append(lastScale.base, i) : i \in 0..(lastScale.count - 1)}

\* what Save and Resurrect must preserve of an entry: everything but its id
Saved(e) == [config |-> e.config, restartCount |-> e.restartCount]
\* C28: after Save and then Resurrect into an empty registry, the registry holds
\* the saved entries again: same names, same spec fields (restart policy,
\* delays, cron, health, namespace), same restart_count; only ids may differ
C28_ResurrectRestores ==
  sv.pc = "back"
    => /\ Len(sv.processes) = Len(sv.saved)
       /\ \A k \in 1..Len(sv.saved) : Saved(sv.processes[k]) = Saved(sv.saved[k])

\* C29: "all" resolves to every entry; a decimal id to the entry with that id, if
\* any; a name T to exactly the entries whose name is T, or T followed by "-" and
\* a worker index (digits), or whose namespace is T
C29_Resolution ==
  rt.pc = "done"
    => rt.result =
         IF rt.target = <<"all">> THEN rt.processes
         ELSE IF isDecimal(rt.target)
         THEN SelectSeq(rt.processes, LAMBDA p : p.id = parseInt[rt.target[1]])
         ELSE SelectSeq(rt.processes,
                LAMBDA p : \/ p.name = rt.target
                           \/ \E d \in DigitTokens : p.name = Append(rt.target, d)
                           \/ p.namespace = rt.target)

\* C30: in a cluster start with n > 1 instances the i-th entry is named <name>-i
\* and its child runs, after the first spawn and after every respawn, with
\* BM2_CLUSTER=true, BM2_WORKER_ID=i, NODE_APP_INSTANCE=i, BM2_INSTANCES=n and,
\* when a base port P is declared, PORT=P+i
C30_WorkerEnv ==
  \A k \in 1..Len(cl.entries) :
    LET w == cl.entries[k]
        i == k - 1
    IN w.spawns >= 1
         => /\ w.name = Append(cl.name, i)
            /\ w.env.BM2_CLUSTER = <<"t", "r", "u", "e">>
            /\ w.env.BM2_WORKER_ID = String(i)
            /\ w.env.NODE_APP_INSTANCE = String(i)
            /\ w.env.BM2_INSTANCES = String(cl.instances)
            /\ (cl.port # <<>> => w.env.PORT = String(cl.port[1] + i))

\* C36: a Stop of an online entry, the only command the operator sent, never
\* throws, also when the child exits by itself while SIGTERM is being delivered
C36_StopNeverThrows ==
  (cmds = 1 /\ lastCmd.op = "stop" /\ lastCmd.at = "online") => lastCmd.ret # "err"

\* C37: when a restart() ends while it is still in its stop step (the stop
\* failed), the autorestart flag of the entry is the one restart() found when
\* it began
C37_RestartKeepsAutorestart ==
  [][\A t \in BagToSet(tasks) :
       (t.kind = "restart" /\ t.pc \in StopPcs /\ tasks' = tasks (-) One(t))
         => autorestart' = t.was]_vars

\* C38: no monitor interval and no watcher is active besides the one the entry
\* holds, and an entry that is stopped or errored without a child and with no
\* operation in flight has no monitor interval, watcher or cron timer active
C38_TimersFollowChild ==
  /\ leakedMonitors = 0 /\ leakedWatchers = 0
  /\ (process = 0 /\ status \in {"stopped", "errored"} /\ tasks = EmptyBag)
       => (~monitorInterval /\ ~watcher /\ ~cron)

\* C39: an entry is removed by Delete-all (c.stop(true), then the entry leaves
\* the registry) while its Start is still in progress and the operator sent
\* nothing else: when that Start completes, no child it spawned is alive outside
\* the registry
C39_StartNotLost ==
  [][(cmds = 1 /\ fires = 0 /\ ~registered /\ tasks # EmptyBag /\ tasks' = EmptyBag)
       => alive' = {}]_vars

\* the values a part of a field expression stands for
CronMeans(value, part) ==
  CASE part.kind = "star" -> TRUE
    [] part.kind = "lit" -> value = part.a
    [] part.kind = "range" -> part.a <= value /\ value <= part.b
    [] part.kind = "starStep" -> value % part.s = 0
    [] part.kind = "rangeStep" ->
         part.a <= value /\ value <= part.b /\ (value - part.a) % part.s = 0
\* C34: the matcher agrees with the parsed set: "*" matches every value, a
\* literal only itself, a list its members, a-b the v with a <= v <= b, */s the
\* v with v mod s = 0, a-b/s the v with a <= v <= b and (v - a) mod s = 0
C34_MatcherAgrees ==
  cm.pc = "done"
    => (cm.result <=> \E k \in 1..Len(cm.expr) : CronMeans(cm.value, cm.expr[k]))

\* C35: at most one polling timer is armed at any time, it is the one _pollTimer
\* holds, and when stopPolling, disconnect or kill returns no polling timer is
\* armed
C35_OnePollTimer ==
  /\ [](/\ Cardinality(ap.armed) <= 1
        /\ ap.armed = IF ap.pollTimer = 0 THEN {} ELSE {ap.pollTimer})
  /\ [][(ap'.n # ap.n /\ ap'.last \in {"stopPolling", "disconnect", "kill"})
          => ap'.armed = {}]_vars
\* kill() returned and cleared a timer, after startPolling had replaced a timer
C35_Witness ==
  ap.last = "kill" /\ ap.cleared /\ ap.nextTimer >= 2 /\ ap.armed = {}

\* every flush of the file has returned and no rotation is in flight
LogQuiet == lg.buf = <<>> /\ lg.fl = {} /\ lg.rot = "none"
\* C33: after retain + 1 size-triggered rotations of f exactly f, f.1, ..., f.retain
\* exist, and f is empty right after each rotation
C33_RotationKeepsRetain ==
  /\ []((lg.rot = "none" /\ lg.rotated = lg.retain + 1)
          => {k \in 1..Len(lg.files) : lg.files[k].exists} = 1..(lg.retain + 1))
  /\ [][(lg.rot = "write" /\ lg'.rot = "none") => lg'.files[1] = File(<<>>)]_vars

\* C40: with every flush returned and at most one rotation done (no segment was
\* dropped yet), the rotated segment followed by the active file holds every
\* line passed to appendLog exactly once, in arrival order
C40_LinesOnceInOrder ==
  (LogQuiet /\ lg.rotated <= 1)
    => lg.files[2].data \o lg.files[1].data = [i \in 1..lg.lines |-> i]


\* A supervisor is running: the PID file names a live process and the socket
\* answers a ping from it.
SupervisorRunning == isDaemonRunning /\ Answers /\ dm.sock = dm.pid

\* C31: while a supervisor is running (the PID file names a live process and
\* the socket answers ping), the start of a second supervisor leaves the
\* first one's socket and PID file untouched, and no second supervisor comes
\* to serve.
C31_SecondStartAborts ==
  [][(SupervisorRunning /\ dm'.procs[dm.pid] = "serving")
       => (dm'.sock = dm.sock /\ dm'.pid = dm.pid)]_vars


\* the responses sent so far that carry the id of request k
Answers32(k) == {i \in 1..Len(ipc.sent) : ipc.sent[i].id = ipc.reqs[k].id}

\* C32: every request received on the socket gets exactly one response, with
\* the request's id; unknown types and throwing operations get success =
\* false with that id.  A request is owed its response from the moment the
\* daemon stops working on it: no request is left unanswered when the daemon
\* process has ended.
C32_OneResponseEach ==
  \A k \in 1..Len(ipc.reqs) :
    LET msg == ipc.reqs[k] IN
      msg.id # 0 =>
        /\ Cardinality(Answers32(k)) = (IF msg \in ipc.inflight /\ ipc.exit # "exited" THEN 0 ELSE 1)
        /\ \A i \in Answers32(k) :
             ipc.sent[i].success = (msg.type \in {"list", "start", "kill"})

\* C32 (amended): a request the daemon has finished dispatching has exactly
\* one response and a request in flight has none; the response carries the
\* request's id, with success = false and type "error" for an unknown type
\* or a throwing operation; a frame that cannot be parsed gets one
\* success = false response without id.
C32_Correlated ==
  /\ \A k \in 1..Len(ipc.reqs) :
       LET msg == ipc.reqs[k] IN
         msg.id # 0 =>
           /\ Cardinality(Answers32(k)) = (IF msg \in ipc.inflight THEN 0 ELSE 1)
           /\ \A i \in Answers32(k) :
                /\ ipc.sent[i].success = (msg.type \in {"list", "start", "kill"})
                /\ ipc.sent[i].type = (IF ipc.sent[i].success THEN msg.type ELSE "error")
  /\ Cardinality({i \in 1..Len(ipc.sent) : ipc.sent[i].id = 0})
       = Cardinality({k \in 1..Len(ipc.reqs) : ipc.reqs[k].id = 0})
  /\ \A i \in 1..Len(ipc.sent) : ipc.sent[i].id = 0 => ~ipc.sent[i].success

\* two requests were in flight together and answered in the other order,
\* the first answer reporting a thrown error
C32_Witness ==
  \E i, j \in 1..Len(ipc.sent) :
    /\ i < j /\ ipc.sent[j].id # 0 /\ ipc.sent[i].id > ipc.sent[j].id
    /\ ~ipc.sent[i].success /\ ipc.sent[j].success
    /\ ipc.reqs[ipc.sent[i].id].type = "fails"

====
